---- MODULE Spec2Model ----
(***************************************************************************)
(* A model of the super-html-ast crate: the tag value (tag.rs), the        *)
(* ordered attribute map (attrs.rs), the node tree with its flatten and    *)
(* extract operations (ast.rs), the markup serializer (format.rs) and the  *)
(* rewriters (visitors/rewrite.rs).                                        *)
(*                                                                         *)
(* A Rust String is a sequence of one-character strings.  A Fragment is    *)
(* the sequence of its nodes (the struct has the single field `nodes`).    *)
(* An AttributeMap is the sequence of its key/value pairs in IndexMap      *)
(* order.  A Node is a record tagged by `kind`.                            *)
(***************************************************************************)
EXTENDS Integers, Sequences, FiniteSets, TLC

VARIABLES
    tree,       \* the Node an operation is applied to
    hooks,      \* the rewriter (visitor) passed to a traversal
    op,         \* the operation that ran last
    out,        \* what that operation returned
    calls,      \* the hook calls of the last traversal, in call order
    src,        \* the strings tagA and tagB were constructed from
    tagA,       \* a TagBuf
    tagB,       \* a TagBuf
    attrs,      \* an AttributeMap (the receiver)
    other,      \* a second AttributeMap (the argument of merge, merge_if_absent)
    order,      \* history: the keys of attrs in the order they were added
    displaced   \* history: a swap_remove has moved a pair of attrs

vars == <<tree, hooks, op, out, calls, src, tagA, tagB, attrs, other, order, displaced>>

\* ---------------------------------------------------------------------------
\* Bounds
\* ---------------------------------------------------------------------------

MaxNodes == 4       \* nodes of a tree given to flatten / extract_*
MaxRwNodes == 3     \* nodes of a tree given to a rewriter
MaxTagLen == 2      \* characters of a tag name
MaxOtherLen == 2    \* pairs of the argument map of merge / merge_if_absent

\* ---------------------------------------------------------------------------
\* Strings
\* ---------------------------------------------------------------------------

\* The upper-case / lower-case letter pairs of the alphabet in use.
CasePairs == {<<"B", "b">>, <<"R", "r">>}

TagChars == {"b", "B", "r", "R"}

\* char::to_lowercase on the alphabet in use.
LowerChar(c) ==
    IF \E p \in CasePairs : p[1] = c
    THEN (CHOOSE p \in CasePairs : p[1] = c)[2]
    ELSE c

\* str::to_lowercase
to_lowercase(s) == [i \in 1..Len(s) |-> LowerChar(s[i])]

RECURSIVE StringsUpTo(_, _)
StringsUpTo(chars, n) ==
    IF n = 0 THEN {<<>>}
    ELSE LET shorter == StringsUpTo(chars, n - 1)
         IN  shorter \cup {Append(s, c) : s \in shorter, c \in chars}

TagNames == StringsUpTo(TagChars, MaxTagLen)

\* ---------------------------------------------------------------------------
\* tag.rs
\* ---------------------------------------------------------------------------

\* A constructor that does not lowercase the normalized form.
TagBuf_new_keep_case(tag) == [original |-> tag, normalized |-> tag]

TagBuf_new(tag) == [original |-> tag, normalized |-> to_lowercase(tag)]

as_original(t) == t.original

as_normalized(t) == t.normalized

matches(a, b) == as_normalized(a) = as_normalized(b)

\* What `impl Hash for TagBuf` feeds to the hasher.
TagBuf_hash(t) == as_original(t)

\* ---------------------------------------------------------------------------
\* attrs.rs: AttributeMap, a newtype over IndexMap<AttributeKeyBuf, AttributeValueBuf>
\* ---------------------------------------------------------------------------

\* Option<AttributeValueBuf>
Some(v) == [some |-> TRUE, value |-> v]
None == [some |-> FALSE, value |-> <<>>]

AttrKeys == {<<"a">>, <<"b">>, <<"c">>}
AttrValues == {<<"1">>, <<"2">>}
OtherValues == {<<"2">>}

Keys(m) == [i \in 1..Len(m) |-> m[i].key]

\* The position of key k in m, 0 when absent (keys compare as strings).
IndexOf(m, k) ==
    IF \E i \in 1..Len(m) : m[i].key = k
    THEN CHOOSE i \in 1..Len(m) : m[i].key = k
    ELSE 0

contains_key(m, k) == IndexOf(m, k) # 0

AttributeMap_get(m, k) ==
    IF contains_key(m, k) THEN Some(m[IndexOf(m, k)].value) ELSE None

\* An insert that moves an existing key to the end.
AttributeMap_insert_shift(m, k, v) ==
    Append(SelectSeq(m, LAMBDA p : p.key # k), [key |-> k, value |-> v])

\* IndexMap::insert: an existing key keeps its position and takes the value
AttributeMap_insert(m, k, v) ==
    IF contains_key(m, k)
    THEN [m EXCEPT ![IndexOf(m, k)].value = v]
    ELSE Append(m, [key |-> k, value |-> v])

\* A remove that closes the gap by shifting the later pairs (shift_remove).
AttributeMap_remove_shift(m, k) == SelectSeq(m, LAMBDA p : p.key # k)

\* IndexMap::swap_remove: the last pair takes the place of the removed one
AttributeMap_remove(m, k) ==
    IF contains_key(m, k)
    THEN LET i == IndexOf(m, k)
             last == m[Len(m)]
         IN  IF i = Len(m)
             THEN SubSeq(m, 1, Len(m) - 1)
             ELSE SubSeq([m EXCEPT ![i] = last], 1, Len(m) - 1)
    ELSE m

\* IndexMap::entry
AttributeMap_entry(m, k) ==
    [variant |-> IF contains_key(m, k) THEN "Occupied" ELSE "Vacant", key |-> k]

\* An or_insert that overwrites the value of an occupied entry.
AttributeMapEntry_or_insert_overwrite(m, e, default) ==
    AttributeMap_insert(m, e.key, default)

\* AttributeMapEntry::or_insert (and Entry::or_insert_with), as the map after it
AttributeMapEntry_or_insert(m, e, default) ==
    IF e.variant = "Occupied"
    THEN m
    ELSE Append(m, [key |-> e.key, value |-> default])

\* OccupiedAttributeEntry::remove, as the map after it
OccupiedAttributeEntry_remove(m, e) == AttributeMap_remove(m, e.key)

\* VacantAttributeEntry::insert, as the map after it
VacantAttributeEntry_insert(m, e, v) == Append(m, [key |-> e.key, value |-> v])

\* A get_or_insert_literal that writes the default over an existing value.
AttributeMap_get_or_insert_literal_overwrite(m, k, default) ==
    AttributeMap_insert(m, k, default)

AttributeMap_get_or_insert_literal(m, k, default) ==
    IF contains_key(m, k)
    THEN m
    ELSE AttributeMapEntry_or_insert(m, AttributeMap_entry(m, k), default)

RECURSIVE AttributeMap_merge(_, _)
AttributeMap_merge(m, o) ==
    IF o = <<>> THEN m
    ELSE AttributeMap_merge(AttributeMap_insert(m, Head(o).key, Head(o).value), Tail(o))

RECURSIVE AttributeMap_merge_if_absent(_, _)
AttributeMap_merge_if_absent(m, o) ==
    IF o = <<>> THEN m
    ELSE AttributeMap_merge_if_absent(
             AttributeMapEntry_or_insert(m, AttributeMap_entry(m, Head(o).key), Head(o).value),
             Tail(o))

\* All maps of at most n pairs with the given keys and values.
RECURSIVE MapsUpTo(_, _, _)
MapsUpTo(keys, values, n) ==
    IF n = 0 THEN {<<>>}
    ELSE LET shorter == MapsUpTo(keys, values, n - 1)
             longest == {m \in shorter : Len(m) = n - 1}
         IN  shorter \cup
             { Append(t[1], [key |-> t[2], value |-> t[3]]) :
                 t \in {u \in longest \X keys \X values : ~contains_key(u[1], u[2])} }

OtherMaps == MapsUpTo(AttrKeys, OtherValues, MaxOtherLen)

\* ---------------------------------------------------------------------------
\* ast.rs: the data model
\* ---------------------------------------------------------------------------

Text(s) == [kind |-> "Text", text |-> s]

Element(tag, attributes, children) ==
    [kind |-> "Element", tag |-> tag, attributes |-> attributes, children |-> children]

Fragment(nodes) == [kind |-> "Fragment", nodes |-> nodes]

\* Node::empty
Node_empty == Fragment(<<>>)

\* The struct inside Node::Element
ElementOf(n) == [tag |-> n.tag, attributes |-> n.attributes, children |-> n.children]

Texts == {<<"a">>, <<"b">>}

\* The tag and attributes of the elements of the trees explored.
ElementHeads ==
    { [tag |-> TagBuf_new(<<"b">>), attributes |-> <<>>],
      [tag |-> TagBuf_new(<<"B", "R">>),
       attributes |-> <<[key |-> <<"a">>, value |-> <<"1">>]>>] }

\* All trees of exactly n nodes, and all sequences of trees of n nodes in all.
RECURSIVE TreesOfSize(_), ForestsOfSize(_)
TreesOfSize(n) ==
    IF n = 0 THEN {}
    ELSE (IF n = 1 THEN {Text(s) : s \in Texts} ELSE {})
         \cup {Fragment(f) : f \in ForestsOfSize(n - 1)}
         \cup {Element(h.tag, h.attributes, f) : h \in ElementHeads, f \in ForestsOfSize(n - 1)}

ForestsOfSize(n) ==
    IF n = 0 THEN {<<>>}
    ELSE UNION { {<<t>> \o f : t \in TreesOfSize(k), f \in ForestsOfSize(n - k)} : k \in 1..n }

TreesUpTo(n) == UNION {TreesOfSize(k) : k \in 1..n}

\* ---------------------------------------------------------------------------
\* ast.rs: flatten, extract_elements, extract_text_strict
\* ---------------------------------------------------------------------------

RECURSIVE Node_flatten(_), Fragment_flatten(_)

\* A flatten that unwraps one level only.
Node_flatten_shallow(n) ==
    IF n.kind = "Fragment" THEN n.nodes ELSE <<n>>

\* A flatten that keeps an empty Fragment as a member.
Node_flatten_keep_empty(n) ==
    CASE n.kind = "Text" -> <<n>>
      [] n.kind = "Element" -> <<n>>
      [] n.kind = "Fragment" -> IF n.nodes = <<>> THEN <<n>> ELSE Fragment_flatten(n.nodes)

Node_flatten(n) ==
    CASE n.kind = "Text" -> <<n>>
      [] n.kind = "Element" -> <<n>>
      [] n.kind = "Fragment" -> Fragment_flatten(n.nodes)

Fragment_flatten(nodes) ==
    IF nodes = <<>> THEN <<>>
    ELSE Node_flatten(Head(nodes)) \o Fragment_flatten(Tail(nodes))

RECURSIVE Node_extract_elements(_), Fragment_extract_elements(_)

\* An extract_elements that also descends into elements.
Node_extract_elements_deep(n) ==
    CASE n.kind = "Element" -> <<ElementOf(n)>> \o Fragment_extract_elements(n.children)
      [] n.kind = "Fragment" -> Fragment_extract_elements(n.nodes)
      [] n.kind = "Text" -> <<>>

Node_extract_elements(n) ==
    CASE n.kind = "Element" -> <<ElementOf(n)>>
      [] n.kind = "Fragment" -> Fragment_extract_elements(n.nodes)
      [] n.kind = "Text" -> <<>>

\* The closure of the flat_map has the three arms of Node::extract_elements.
Fragment_extract_elements(nodes) ==
    IF nodes = <<>> THEN <<>>
    ELSE Node_extract_elements(Head(nodes)) \o Fragment_extract_elements(Tail(nodes))

\* Result<Vec<String>, ()>
Ok(v) == [ok |-> TRUE, value |-> v]
Err == [ok |-> FALSE, value |-> <<>>]

RECURSIVE Node_extract_text_strict(_), Fragment_extract_text_strict_from(_, _)

\* A loop that drops the error of a nested Fragment (no `?`).
Fragment_extract_text_strict_lenient(nodes, results) ==
    IF nodes = <<>> THEN Ok(results)
    ELSE LET node == Head(nodes)
         IN  CASE node.kind = "Element" -> Err
               [] node.kind = "Fragment" ->
                    LET inner == Fragment_extract_text_strict_from(node.nodes, <<>>)
                    IN  Fragment_extract_text_strict_from(Tail(nodes), results \o inner.value)
               [] node.kind = "Text" ->
                    Fragment_extract_text_strict_from(Tail(nodes), Append(results, node.text))

\* The loop of Fragment::extract_text_strict over the nodes still to visit, with
\* the `results` collected so far.
Fragment_extract_text_strict_from(nodes, results) ==
    IF nodes = <<>> THEN Ok(results)
    ELSE LET node == Head(nodes)
         IN  CASE node.kind = "Element" -> Err
               [] node.kind = "Fragment" ->
                    LET inner == Fragment_extract_text_strict_from(node.nodes, <<>>)
                    IN  IF inner.ok
                        THEN Fragment_extract_text_strict_from(Tail(nodes), results \o inner.value)
                        ELSE Err
               [] node.kind = "Text" ->
                    Fragment_extract_text_strict_from(Tail(nodes), Append(results, node.text))

Fragment_extract_text_strict(nodes) == Fragment_extract_text_strict_from(nodes, <<>>)

Node_extract_text_strict(n) ==
    CASE n.kind = "Element" -> Err
      [] n.kind = "Fragment" -> Fragment_extract_text_strict(n.nodes)
      [] n.kind = "Text" -> Ok(<<n.text>>)

\* ---------------------------------------------------------------------------
\* visitors/rewrite.rs
\* ---------------------------------------------------------------------------

\* A rewriter is a choice of behaviour for each hook: "default" is the trait's
\* default method, the others are overriding implementations.
TextHooks == {"default", "wrap"}
ElementHooks == {"default", "unwrap"}
FragmentHooks == {"default", "nest"}

Rewriters == [text : TextHooks, element : ElementHooks, fragment : FragmentHooks]

\* HtmlRewriter::visit_text; "wrap" returns the text inside a Fragment node
visit_text(h, text) ==
    IF h.text = "default" THEN Text(text) ELSE Fragment(<<Text(text)>>)

\* HtmlRewriter::visit_fragment; "nest" returns the fragment inside another one
visit_fragment(h, fragment) ==
    IF h.fragment = "default" THEN Fragment(fragment) ELSE Fragment(<<Fragment(fragment)>>)

\* ElementRewriter::visit_element and HtmlRewriter::visit_element; "unwrap"
\* replaces the element by its children
visit_element(h, tag, attributes, children) ==
    IF h.element = "default" THEN Element(tag, attributes, children) ELSE Fragment(children)

\* A hook call as the traversal makes it: the hook and its arguments, held as
\* the node the default hook would build from them.
Call(hook, arg) == [hook |-> hook, arg |-> arg]

\* The closure of the flat_map of the Fragment visitors: one level is spliced
RECURSIVE SpliceOneLevel(_)
\* A splice that keeps the Fragment wrappers.
SpliceOneLevel_keep(nodes) == nodes

SpliceOneLevel(nodes) ==
    IF nodes = <<>> THEN <<>>
    ELSE (IF Head(nodes).kind = "Fragment" THEN Head(nodes).nodes ELSE <<Head(nodes)>>)
         \o SpliceOneLevel(Tail(nodes))

\* Each traversal is modelled as the pair of the node it returns and the hook
\* calls it makes, in call order.
RECURSIVE Node_apply_element_visitor(_, _), MapElementVisitor(_, _)

\* children.into_iter().map(|element| element.apply_element_visitor(visitor))
MapElementVisitor(nodes, h) ==
    IF nodes = <<>> THEN [nodes |-> <<>>, calls |-> <<>>]
    ELSE LET first == Node_apply_element_visitor(Head(nodes), h)
             rest == MapElementVisitor(Tail(nodes), h)
         IN  [nodes |-> <<first.node>> \o rest.nodes, calls |-> first.calls \o rest.calls]

Element_apply_element_visitor(element, h) ==
    LET mapped == MapElementVisitor(element.children, h)
        children == mapped.nodes
    IN  [node |-> visit_element(h, element.tag, element.attributes, children),
         calls |-> Append(mapped.calls,
                          Call("visit_element", Element(element.tag, element.attributes, children)))]

Fragment_apply_element_visitor(fragment, h) ==
    LET mapped == MapElementVisitor(fragment, h)
    IN  [node |-> Fragment(SpliceOneLevel(mapped.nodes)), calls |-> mapped.calls]

Node_apply_element_visitor(n, h) ==
    CASE n.kind = "Text" -> [node |-> n, calls |-> <<>>]
      [] n.kind = "Element" -> Element_apply_element_visitor(ElementOf(n), h)
      [] n.kind = "Fragment" -> Fragment_apply_element_visitor(n.nodes, h)

apply_element_rewriter(n, h) == Node_apply_element_visitor(n, h)

RECURSIVE Node_full_markup_visitor(_, _), MapFullMarkupVisitor(_, _)

\* nodes.into_iter().map(|element| element.full_markup_visitor(visitor))
MapFullMarkupVisitor(nodes, h) ==
    IF nodes = <<>> THEN [nodes |-> <<>>, calls |-> <<>>]
    ELSE LET first == Node_full_markup_visitor(Head(nodes), h)
             rest == MapFullMarkupVisitor(Tail(nodes), h)
         IN  [nodes |-> <<first.node>> \o rest.nodes, calls |-> first.calls \o rest.calls]

Element_full_markup_visitor(element, h) ==
    LET mapped == MapFullMarkupVisitor(Fragment_flatten(element.children), h)
        rewritten == mapped.nodes
        children == Node_flatten(visit_fragment(h, rewritten))
    IN  [node |-> visit_element(h, element.tag, element.attributes, children),
         calls |-> mapped.calls
                   \o <<Call("visit_fragment", Fragment(rewritten)),
                        Call("visit_element", Element(element.tag, element.attributes, children))>>]

Fragment_full_markup_visitor(fragment, h) ==
    LET mapped == MapFullMarkupVisitor(fragment, h)
        nodes == SpliceOneLevel(mapped.nodes)
    IN  [node |-> visit_fragment(h, nodes),
         calls |-> Append(mapped.calls, Call("visit_fragment", Fragment(nodes)))]

Node_full_markup_visitor(n, h) ==
    CASE n.kind = "Text" ->
            [node |-> visit_text(h, n.text), calls |-> <<Call("visit_text", n)>>]
      [] n.kind = "Element" -> Element_full_markup_visitor(ElementOf(n), h)
      [] n.kind = "Fragment" -> Fragment_full_markup_visitor(n.nodes, h)

apply_html_rewriter(n, h) == Node_full_markup_visitor(n, h)

\* ---------------------------------------------------------------------------
\* visitors/reduce.rs
\* ---------------------------------------------------------------------------

\* Two implementations of HtmlReducer.  "count" has Output = integer: a text is
\* 1, a fragment the sum of its inputs, an element 1 plus its children's
\* Output.  "term" has Output = the term built from the hook's arguments, so
\* that an Output tells which calls produced it.
Reducers == {"count", "term"}

RECURSIVE Sum(_)
Sum(xs) == IF xs = <<>> THEN 0 ELSE Head(xs) + Sum(Tail(xs))

\* HtmlReducer::visit_text
reducer_visit_text(r, text) ==
    IF r = "count" THEN 1 ELSE [term |-> "text", text |-> text]

\* HtmlReducer::visit_fragment
reducer_visit_fragment(r, fragment) ==
    IF r = "count" THEN Sum(fragment) ELSE [term |-> "fragment", of |-> fragment]

\* HtmlReducer::visit_element
reducer_visit_element(r, tag, attributes, children) ==
    IF r = "count"
    THEN 1 + children
    ELSE [term |-> "element", tag |-> tag, attributes |-> attributes, children |-> children]

\* A reducer hook call: the hook, its arguments and what it returned.
ReducerCall(hook, arg, ret) == [hook |-> hook, arg |-> arg, ret |-> ret]

\* The traversal is modelled as the pair of the Output it returns and the hook
\* calls it makes, in call order.
RECURSIVE Node_apply_html_reducer(_, _), MapHtmlReducer(_, _)

\* A map that reduces the children from right to left.
MapHtmlReducer_right_to_left(nodes, r) ==
    IF nodes = <<>> THEN [outputs |-> <<>>, calls |-> <<>>]
    ELSE LET rest == MapHtmlReducer(Tail(nodes), r)
             first == Node_apply_html_reducer(Head(nodes), r)
         IN  [outputs |-> <<first.output>> \o rest.outputs, calls |-> rest.calls \o first.calls]

\* self.into_iter().map(|x| x.apply_html_reducer(reducer)).collect()
MapHtmlReducer(nodes, r) ==
    IF nodes = <<>> THEN [outputs |-> <<>>, calls |-> <<>>]
    ELSE LET first == Node_apply_html_reducer(Head(nodes), r)
             rest == MapHtmlReducer(Tail(nodes), r)
         IN  [outputs |-> <<first.output>> \o rest.outputs, calls |-> first.calls \o rest.calls]

\* A Fragment reducer that hands visit_fragment the first Output only.
Fragment_apply_html_reducer_first_only(fragment, r) ==
    LET mapped == MapHtmlReducer(fragment, r)
        kept == IF mapped.outputs = <<>> THEN <<>> ELSE <<Head(mapped.outputs)>>
        output == reducer_visit_fragment(r, kept)
    IN  [output |-> output,
         calls |-> Append(mapped.calls, ReducerCall("visit_fragment", kept, output))]

Fragment_apply_html_reducer(fragment, r) ==
    LET mapped == MapHtmlReducer(fragment, r)
        output == reducer_visit_fragment(r, mapped.outputs)
    IN  [output |-> output,
         calls |-> Append(mapped.calls, ReducerCall("visit_fragment", mapped.outputs, output))]

\* An Element reducer that does not reduce the children it has.
Element_apply_html_reducer_childless(element, r) ==
    LET children == Fragment_apply_html_reducer(<<>>, r)
        output == reducer_visit_element(r, element.tag, element.attributes, children.output)
    IN  [output |-> output,
         calls |-> Append(children.calls,
                          ReducerCall("visit_element",
                                      [tag |-> element.tag, attributes |-> element.attributes,
                                       children |-> children.output],
                                      output))]

Element_apply_html_reducer(element, r) ==
    LET children == Fragment_apply_html_reducer(element.children, r)
        output == reducer_visit_element(r, element.tag, element.attributes, children.output)
    IN  [output |-> output,
         calls |-> Append(children.calls,
                          ReducerCall("visit_element",
                                      [tag |-> element.tag, attributes |-> element.attributes,
                                       children |-> children.output],
                                      output))]

Node_apply_html_reducer(n, r) ==
    CASE n.kind = "Text" ->
            LET output == reducer_visit_text(r, n.text)
            IN  [output |-> output, calls |-> <<ReducerCall("visit_text", n.text, output)>>]
      [] n.kind = "Element" -> Element_apply_html_reducer(ElementOf(n), r)
      [] n.kind = "Fragment" -> Fragment_apply_html_reducer(n.nodes, r)

apply_html_reducer(n, r) == Node_apply_html_reducer(n, r)

\* ---------------------------------------------------------------------------
\* query.rs
\* ---------------------------------------------------------------------------

RECURSIVE Node_find_first(_, _), Fragment_find_first(_, _)

\* An Element search that looks into the children before the element itself.
Element_find_first_children_first(element, target) ==
    LET found == Fragment_find_first(element.children, target)
    IN  IF found.some THEN found
        ELSE IF matches(element.tag, target)
             THEN Some(Element(element.tag, element.attributes, element.children))
             ELSE None

Element_find_first(element, target) ==
    IF matches(element.tag, target)
    THEN Some(Element(element.tag, element.attributes, element.children))
    ELSE Fragment_find_first(element.children, target)

\* self.iter().find_map(|x| x.find_first(target))
Fragment_find_first(fragment, target) ==
    IF fragment = <<>> THEN None
    ELSE LET first == Node_find_first(Head(fragment), target)
         IN  IF first.some THEN first ELSE Fragment_find_first(Tail(fragment), target)

Node_find_first(n, target) ==
    CASE n.kind = "Element" -> Element_find_first(ElementOf(n), target)
      [] n.kind = "Fragment" -> Fragment_find_first(n.nodes, target)
      [] n.kind = "Text" -> None

\* ---------------------------------------------------------------------------
\* constants.rs
\* ---------------------------------------------------------------------------

INLINE_TAGS ==
    { <<"a">>, <<"a", "b", "b", "r">>, <<"b">>, <<"b", "d", "i">>, <<"b", "d", "o">>,
      <<"b", "r">>, <<"c", "i", "t", "e">>, <<"c", "o", "d", "e">>, <<"d", "a", "t", "a">>,
      <<"d", "f", "n">>, <<"e", "m">>, <<"i">>, <<"k", "b", "d">>, <<"m", "a", "r", "k">>,
      <<"q">>, <<"r", "p">>, <<"r", "t">>, <<"r", "u", "b", "y">>, <<"s">>,
      <<"s", "a", "m", "p">>, <<"s", "m", "a", "l", "l">>, <<"s", "p", "a", "n">>,
      <<"s", "t", "r", "o", "n", "g">>, <<"s", "u", "b">>, <<"s", "u", "p">>,
      <<"t", "i", "m", "e">>, <<"u">>, <<"v", "a", "r">>, <<"w", "b", "r">>,
      <<"a", "u", "d", "i", "o">>, <<"c", "a", "n", "v", "a", "s">>,
      <<"e", "m", "b", "e", "d">>, <<"i", "f", "r", "a", "m", "e">>, <<"i", "m", "g">>,
      <<"m", "a", "t", "h">>, <<"o", "b", "j", "e", "c", "t">>,
      <<"p", "i", "c", "t", "u", "r", "e">>, <<"s", "v", "g">>, <<"v", "i", "d", "e", "o">>,
      <<"b", "u", "t", "t", "o", "n">>, <<"i", "n", "p", "u", "t">>,
      <<"l", "a", "b", "e", "l">>, <<"s", "e", "l", "e", "c", "t">>,
      <<"t", "e", "x", "t", "a", "r", "e", "a">>, <<"s", "c", "r", "i", "p", "t">>,
      <<"n", "o", "s", "c", "r", "i", "p", "t">>, <<"t", "e", "m", "p", "l", "a", "t", "e">>,
      <<"s", "l", "o", "t">>, <<"o", "u", "t", "p", "u", "t">> }

VOID_TAGS ==
    { <<"a", "r", "e", "a">>, <<"b", "a", "s", "e">>, <<"b", "r">>, <<"c", "o", "l">>,
      <<"e", "m", "b", "e", "d">>, <<"h", "r">>, <<"i", "m", "g">>, <<"i", "n", "p", "u", "t">>,
      <<"l", "i", "n", "k">>, <<"m", "e", "t", "a">>, <<"s", "o", "u", "r", "c", "e">>,
      <<"t", "r", "a", "c", "k">>, <<"w", "b", "r">> }

is_inline_tag(tag) == as_normalized(tag) \in INLINE_TAGS

\* A void test on the tag as it was written.
is_void_tag_original(tag) == as_original(tag) \in VOID_TAGS

is_void_tag(tag) == as_normalized(tag) \in VOID_TAGS

\* ---------------------------------------------------------------------------
\* format.rs
\* ---------------------------------------------------------------------------

\* FormatEnvironment::new (FormatSettings is an empty struct)
FormatEnvironment_new ==
    [indent |-> 0, format_type |-> "Block", escape_tokens |-> FALSE]

\* A scope whose mode is decided by the tag alone.
scope_by_tag_alone(env, tag) ==
    [indent |-> env.indent,
     format_type |-> IF is_inline_tag(tag) THEN "Inline" ELSE "Block",
     escape_tokens |-> env.escape_tokens]

\* A scope that turns token escaping on outside script and style.
scope_escaping(env, tag) ==
    [indent |-> env.indent,
     format_type |-> IF is_inline_tag(tag) THEN "Inline" ELSE env.format_type,
     escape_tokens |-> as_normalized(tag) \notin {<<"s", "c", "r", "i", "p", "t">>,
                                                  <<"s", "t", "y", "l", "e">>}]

\* FormatEnvironment::scope
scope(env, tag) ==
    LET format_type ==
            IF env.format_type = "Block" /\ is_inline_tag(tag)
            THEN "Inline"
            ELSE env.format_type
        auto_indent ==
            IF as_normalized(tag) \in {<<"h", "t", "m", "l">>, <<"h", "e", "a", "d">>,
                                       <<"b", "o", "d", "y">>}
            THEN FALSE
            ELSE format_type = "Block"
        escape_tokens ==
            IF env.escape_tokens
            THEN IF as_normalized(tag) \in {<<"s", "c", "r", "i", "p", "t">>,
                                            <<"s", "t", "y", "l", "e">>}
                 THEN FALSE
                 ELSE TRUE
            ELSE FALSE
    IN  [indent |-> IF auto_indent THEN env.indent + 1 ELSE env.indent,
         format_type |-> format_type,
         escape_tokens |-> escape_tokens]

RECURSIVE Concat(_)
\* Vec<String>::join("")
Concat(strings) ==
    IF strings = <<>> THEN <<>> ELSE Head(strings) \o Concat(Tail(strings))

RECURSIVE JoinSpace(_)
\* Vec<String>::join(" ")
JoinSpace(strings) ==
    IF strings = <<>> THEN <<>>
    ELSE IF Len(strings) = 1 THEN Head(strings)
    ELSE Head(strings) \o <<" ">> \o JoinSpace(Tail(strings))

\* `{value:?}`: the Debug form of a str, in double quotes with `"` and `\` escaped
DebugStr(s) ==
    <<"\"">>
    \o Concat([i \in 1..Len(s) |-> IF s[i] \in {"\"", "\\"} THEN <<"\\", s[i]>> ELSE <<s[i]>>])
    \o <<"\"">>

\* A format_attributes without the space before the first item.
format_attributes_no_leading_space(attributes) ==
    LET items == [i \in 1..Len(attributes) |->
                    attributes[i].key \o <<"=">> \o DebugStr(attributes[i].value)]
    IN  IF items = <<>> THEN <<>> ELSE JoinSpace(items)

format_attributes(attributes) ==
    LET items == [i \in 1..Len(attributes) |->
                    attributes[i].key \o <<"=">> \o DebugStr(attributes[i].value)]
    IN  IF items = <<>> THEN <<>> ELSE <<" ">> \o JoinSpace(items)

RECURSIVE Node_render_impl(_, _), Element_render_impl(_, _), format_fragment(_, _)

Element_render_impl(element, environment) ==
    LET env == scope(environment, element.tag)
        attributes == format_attributes(element.attributes)
    IN  IF is_void_tag(element.tag) /\ Len(element.children) = 0
        THEN <<"<">> \o as_original(element.tag) \o attributes \o <<" ", "/", ">">>
        ELSE <<"<">> \o as_original(element.tag) \o attributes \o <<">">>
             \o format_fragment(element.children, env)
             \o <<"<", "/">> \o as_original(element.tag) \o <<">">>

Node_render_impl(n, environment) ==
    CASE n.kind = "Text" -> n.text
      [] n.kind = "Element" -> Element_render_impl(ElementOf(n), environment)
      [] n.kind = "Fragment" -> format_fragment(n.nodes, environment)

\* A format_fragment that joins the renderings with a space.
format_fragment_spaced(nodes, environment) ==
    LET xs == [i \in 1..Len(nodes) |-> Node_render_impl(nodes[i], environment)]
    IN  IF xs = <<>> THEN <<>> ELSE JoinSpace(xs)

format_fragment(nodes, environment) ==
    LET xs == [i \in 1..Len(nodes) |-> Node_render_impl(nodes[i], environment)]
    IN  IF xs = <<>> THEN <<>> ELSE Concat(xs)

\* Element::format
Element_format(element) == Element_render_impl(element, FormatEnvironment_new)

\* Node::format
Node_format(n) == Node_render_impl(n, FormatEnvironment_new)

\* The environments of one rendering: for every node render_impl is called on,
\* the environment it is given and the environment it hands to its children
\* (an Element hands down its scope, a Fragment what it was given), in call
\* order.
RECURSIVE Node_render_environments(_, _, _)
Node_render_environments(n, environment, path) ==
    CASE n.kind = "Text" ->
            <<[path |-> path, environment |-> environment, inner |-> environment]>>
      [] n.kind = "Element" ->
            LET env == scope(environment, n.tag)
            IN  <<[path |-> path, environment |-> environment, inner |-> env]>>
                \o (IF is_void_tag(n.tag) /\ Len(n.children) = 0
                    THEN <<>>
                    ELSE Concat([i \in 1..Len(n.children) |->
                            Node_render_environments(n.children[i], env, Append(path, i))]))
      [] n.kind = "Fragment" ->
            <<[path |-> path, environment |-> environment, inner |-> environment]>>
            \o Concat([i \in 1..Len(n.nodes) |->
                    Node_render_environments(n.nodes[i], environment, Append(path, i))])

\* ---------------------------------------------------------------------------
\* format/pretty_html.rs and pretty_format
\* ---------------------------------------------------------------------------

PrettifyOk(stdout) == [result |-> "Ok", value |-> stdout]
PrettifyErr(error) == [result |-> "Err", value |-> error]

\* A panic, named by the call that panicked; it unwinds through the callers.
Panic(at) == [result |-> "panic", value |-> at]

\* The exit codes tidy is let to end with (0 fine, 1 warnings, 2 errors).
ExitCodes == {0, 1, 2}

\* What tidy is let to print on its stdout.
TidyPrints == {<<>>, <<"<", "b", ">", "\n">>}

\* The ways the interaction with the tidy subprocess can go: spawn fails
\* ("spawn"), writing to its stdin fails ("write"), waiting for it fails
\* ("wait"), or its output is collected ("exited"): then its stdout and stderr
\* are valid UTF-8 or not and status.code() is Some(exit code) or, when a signal
\* ended it, None.
TidyRuns ==
    {[stage |-> s] : s \in {"spawn", "write", "wait"}}
    \cup [stage : {"exited"},
          stdout : TidyPrints,
          stdout_utf8 : BOOLEAN,
          stderr_utf8 : BOOLEAN,
          code : {[some |-> FALSE, value |-> 0]}
                   \cup {[some |-> TRUE, value |-> c] : c \in ExitCodes}]

prettify_html(html_str, run) ==
    IF run.stage = "spawn" THEN PrettifyErr("TidyNotInstalled")
    ELSE IF run.stage = "write" THEN Panic("stdin.write_all(..).unwrap()")
    ELSE IF run.stage = "wait" THEN PrettifyErr("TidyExecutionFailed")
    ELSE IF ~run.stdout_utf8 THEN Panic("String::from_utf8(output.stdout).unwrap()")
    ELSE IF ~run.stderr_utf8 THEN Panic("String::from_utf8(output.stderr).unwrap()")
    ELSE LET status == IF run.code.some THEN run.code.value ELSE -1
         IN  IF status # 0 /\ status # 1
             THEN PrettifyErr("TidyExecutionFailed")
             ELSE PrettifyOk(run.stdout)

Returned(string) == [result |-> "returned", value |-> string]

\* Node::pretty_format
Node_pretty_format(n, run) ==
    LET string == Node_format(n)
        pretty == prettify_html(string, run)
    IN  CASE pretty.result = "Ok" -> Returned(pretty.value)
          [] pretty.result = "Err" -> Returned(string)
          [] pretty.result = "panic" -> pretty

\* ---------------------------------------------------------------------------
\* super-markdown-ast/src/ast.rs: the Markdown tree
\* ---------------------------------------------------------------------------

\* MdNode::Block, MdNode::Inline
MdBlock(block) == [md |-> "Block", node |-> block]
MdInline(inline) == [md |-> "Inline", node |-> inline]

\* MdBlockNode
MdParagraph(nodes) == [md |-> "Paragraph", nodes |-> nodes]
MdPre(nodes) == [md |-> "Pre", nodes |-> nodes]
MdList(list) == [md |-> "List", list |-> list]
MdBlockQuote(nodes) == [md |-> "BlockQuote", nodes |-> nodes]

\* MdListItemNode, MdListNode
MdListItemNode(nodes) == [md |-> "ListItem", nodes |-> nodes]
MdUnordered(items) == [md |-> "Unordered", items |-> items]
MdOrdered(items) == [md |-> "Ordered", items |-> items]

\* MdInlineNode
MdCodeSpan(nodes) == [md |-> "CodeSpan", nodes |-> nodes]
MdText(text) == [md |-> "Text", text |-> text]

MarkdownDocument(nodes) == [nodes |-> nodes]

\* ---------------------------------------------------------------------------
\* markdown.rs: HTML to Markdown
\* ---------------------------------------------------------------------------

\* A from_tag that matches the tag as it was written.
BlockType_from_tag_original(tag) ==
    CASE as_original(tag) = <<"p">> -> "Paragraph"
      [] as_original(tag) = <<"p", "r", "e">> -> "Pre"
      [] as_original(tag) = <<"u", "l">> -> "UnorderedList"
      [] as_original(tag) = <<"o", "l">> -> "OrderedList"
      [] as_original(tag) = <<"l", "i">> -> "ListItem"
      [] as_original(tag) = <<"b", "l", "o", "c", "k", "q", "u", "o", "t", "e">> -> "BlockQuote"
      [] OTHER -> "None"

\* BlockType::from_tag
BlockType_from_tag(tag) ==
    CASE as_normalized(tag) = <<"p">> -> "Paragraph"
      [] as_normalized(tag) = <<"p", "r", "e">> -> "Pre"
      [] as_normalized(tag) = <<"u", "l">> -> "UnorderedList"
      [] as_normalized(tag) = <<"o", "l">> -> "OrderedList"
      [] as_normalized(tag) = <<"l", "i">> -> "ListItem"
      [] as_normalized(tag) = <<"b", "l", "o", "c", "k", "q", "u", "o", "t", "e">> -> "BlockQuote"
      [] OTHER -> "None"

\* InlineType::from_tag
InlineType_from_tag(tag) ==
    IF as_normalized(tag) = <<"c", "o", "d", "e">> THEN "CodeSpan" ELSE "None"

\* What a conversion function comes to: the nodes it returns, or the panic of
\* an unimplemented!() reached while it ran.
Converted(nodes) == [panic |-> FALSE, nodes |-> nodes]
Unimplemented == [panic |-> TRUE, nodes |-> <<>>]

RECURSIVE Node_to_md_nodes(_), Node_to_md_inline_nodes(_), Node_md_list_items(_)
RECURSIVE Fragment_to_md_nodes(_), Fragment_to_md_inline_nodes(_), Fragment_md_list_items(_)

\* Element::md_list_item; the item is the one node of the result.
Element_md_list_item(element) ==
    LET children == Fragment_to_md_nodes(element.children)
    IN  IF children.panic THEN Unimplemented
        ELSE IF as_normalized(element.tag) = <<"l", "i">>
             THEN Converted(<<MdListItemNode(children.nodes)>>)
             ELSE Unimplemented

Element_to_md_inline_nodes(element) ==
    LET children == Fragment_to_md_inline_nodes(element.children)
    IN  IF children.panic THEN Unimplemented
        ELSE IF as_normalized(element.tag) = <<"c", "o", "d", "e">>
             THEN Converted(<<MdCodeSpan(children.nodes)>>)
             ELSE Unimplemented

\* A block conversion that takes a list item outside a list for a paragraph.
Element_to_md_nodes_lenient(element) ==
    LET block_type == BlockType_from_tag(element.tag)
    IN  IF block_type \in {"Paragraph", "ListItem"}
        THEN LET children == Fragment_to_md_nodes(element.children)
             IN  IF children.panic THEN Unimplemented
                 ELSE Converted(<<MdBlock(MdParagraph(children.nodes))>>)
        ELSE Unimplemented

Element_to_md_nodes(element) ==
    LET block_type == BlockType_from_tag(element.tag)
    IN  CASE block_type \in {"Paragraph", "Pre", "BlockQuote"} ->
                LET children == Fragment_to_md_nodes(element.children)
                IN  IF children.panic THEN Unimplemented
                    ELSE Converted(<<MdBlock(
                            CASE block_type = "Paragraph" -> MdParagraph(children.nodes)
                              [] block_type = "Pre" -> MdPre(children.nodes)
                              [] block_type = "BlockQuote" -> MdBlockQuote(children.nodes))>>)
          [] block_type \in {"UnorderedList", "OrderedList"} ->
                LET children == Fragment_md_list_items(element.children)
                IN  IF children.panic THEN Unimplemented
                    ELSE Converted(<<MdBlock(MdList(
                            IF block_type = "UnorderedList"
                            THEN MdUnordered(children.nodes)
                            ELSE MdOrdered(children.nodes)))>>)
          [] block_type = "ListItem" -> Unimplemented
          [] block_type = "None" ->
                IF InlineType_from_tag(element.tag) = "CodeSpan"
                THEN LET nodes == Element_to_md_inline_nodes(element)
                     IN  IF nodes.panic THEN Unimplemented
                         ELSE Converted([i \in DOMAIN nodes.nodes |-> MdInline(nodes.nodes[i])])
                ELSE Unimplemented

Node_to_md_nodes(n) ==
    CASE n.kind = "Element" -> Element_to_md_nodes(ElementOf(n))
      [] n.kind = "Fragment" -> Fragment_to_md_nodes(n.nodes)
      [] n.kind = "Text" -> Converted(<<MdInline(MdText(n.text))>>)

Node_to_md_inline_nodes(n) ==
    CASE n.kind = "Element" -> Element_to_md_inline_nodes(ElementOf(n))
      [] n.kind = "Fragment" -> Fragment_to_md_inline_nodes(n.nodes)
      [] n.kind = "Text" -> Converted(<<MdText(n.text)>>)

\* A list conversion that makes an item of a Text child as well.
Node_md_list_items_with_text(n) ==
    CASE n.kind = "Element" -> Element_md_list_item(ElementOf(n))
      [] n.kind = "Fragment" -> Fragment_md_list_items(n.nodes)
      [] n.kind = "Text" -> Converted(<<MdListItemNode(<<MdInline(MdText(n.text))>>)>>)

Node_md_list_items(n) ==
    CASE n.kind = "Element" -> Element_md_list_item(ElementOf(n))
      [] n.kind = "Fragment" -> Fragment_md_list_items(n.nodes)
      [] n.kind = "Text" -> Converted(<<>>)

\* self.iter().flat_map(|x| x.to_md_nodes()).collect()
Fragment_to_md_nodes(fragment) ==
    IF fragment = <<>> THEN Converted(<<>>)
    ELSE LET first == Node_to_md_nodes(Head(fragment))
             rest == Fragment_to_md_nodes(Tail(fragment))
         IN  IF first.panic \/ rest.panic THEN Unimplemented
             ELSE Converted(first.nodes \o rest.nodes)

Fragment_to_md_inline_nodes(fragment) ==
    IF fragment = <<>> THEN Converted(<<>>)
    ELSE LET first == Node_to_md_inline_nodes(Head(fragment))
             rest == Fragment_to_md_inline_nodes(Tail(fragment))
         IN  IF first.panic \/ rest.panic THEN Unimplemented
             ELSE Converted(first.nodes \o rest.nodes)

Fragment_md_list_items(fragment) ==
    IF fragment = <<>> THEN Converted(<<>>)
    ELSE LET first == Node_md_list_items(Head(fragment))
             rest == Fragment_md_list_items(Tail(fragment))
         IN  IF first.panic \/ rest.panic THEN Unimplemented
             ELSE Converted(first.nodes \o rest.nodes)

\* to_markdown_document: the document, or the panic that ended the conversion.
to_markdown_document(nodes) ==
    LET converted == Fragment_to_md_nodes(nodes)
    IN  IF converted.panic
        THEN [panic |-> TRUE, document |-> MarkdownDocument(<<>>)]
        ELSE [panic |-> FALSE, document |-> MarkdownDocument(converted.nodes)]

\* ---------------------------------------------------------------------------
\* super-markdown-ast/src/format.rs: the Markdown pretty-printer
\* ---------------------------------------------------------------------------

\* The character U+0060, the backtick, as an element of a string (its name
\* stands for it: the character itself cannot be written in a string here).
Grave == "U+0060"

\* TextNode::Text, TextNode::Newline; a Buffer is the sequence of its nodes.
TextNode_Text(text) == [node |-> "Text", text |-> text]
TextNode_Newline(type) == [node |-> "Newline", type |-> type]

\* str::contains
str_contains(text, pattern) ==
    \E k \in 0..(Len(text) - Len(pattern)) : SubSeq(text, k + 1, k + Len(pattern)) = pattern

\* Buffer::contains_str
Buffer_contains_str(buffer, pattern) ==
    \E i \in DOMAIN buffer :
        /\ buffer[i].node = "Text"
        /\ str_contains(buffer[i].text, pattern)

Buffer_merge_mut(buffer, subbuffer) == buffer \o subbuffer
Buffer_push_text(buffer, text) == Append(buffer, TextNode_Text(text))
Buffer_push_newline(buffer) == Append(buffer, TextNode_Newline("Newline"))
Buffer_ensure_newline(buffer) == Append(buffer, TextNode_Newline("EnsureNewline"))

\* Buffer::finalize, from the string written so far
RECURSIVE Buffer_finalize_from(_, _)
Buffer_finalize_from(nodes, output_string) ==
    IF nodes = <<>> THEN output_string
    ELSE LET entry == Head(nodes)
             next ==
                CASE entry.node = "Text" -> output_string \o entry.text
                  [] entry.node = "Newline" /\ entry.type = "HardNewline" ->
                        output_string \o <<"\n", "\n">>
                  [] entry.node = "Newline" /\ entry.type \in {"SoftNewline", "Newline"} ->
                        output_string \o <<"\n">>
                  [] entry.node = "Newline" /\ entry.type = "EnsureNewline" ->
                        IF output_string # <<>> /\ output_string[Len(output_string)] = "\n"
                        THEN output_string
                        ELSE output_string \o <<"\n">>
         IN  Buffer_finalize_from(Tail(nodes), next)

Buffer_finalize(buffer) == Buffer_finalize_from(buffer, <<>>)

\* usize as `{}` writes it
RECURSIVE usize_to_string(_)
usize_to_string(n) ==
    LET digit == <<"0", "1", "2", "3", "4", "5", "6", "7", "8", "9">>[(n % 10) + 1]
    IN  IF n < 10 THEN <<digit>> ELSE Append(usize_to_string(n \div 10), digit)

\* The apply_formatter functions, as the buffer they leave.  (The Scope they
\* pass down is written and never read.)
RECURSIVE MdNode_apply_formatter(_, _), MdNodes_apply_formatter(_, _)
RECURSIVE MdInlineNodes_apply_formatter(_, _), MdListItems_apply_formatter(_, _, _, _)

\* xs.iter().for_each(|x| x.apply_formatter(buffer, scope)) over MdNodes
MdNodes_apply_formatter(xs, buffer) ==
    IF xs = <<>> THEN buffer
    ELSE MdNodes_apply_formatter(Tail(xs), MdNode_apply_formatter(Head(xs), buffer))

MdInlineNode_apply_formatter(inline, buffer) ==
    CASE inline.md = "CodeSpan" -> MdInlineNodes_apply_formatter(inline.nodes, buffer)
      [] inline.md = "Text" -> Buffer_push_text(buffer, inline.text)

MdInlineNodes_apply_formatter(xs, buffer) ==
    IF xs = <<>> THEN buffer
    ELSE MdInlineNodes_apply_formatter(Tail(xs), MdInlineNode_apply_formatter(Head(xs), buffer))

\* A list item numbered by its index as it is.
MdListItemNode_apply_formatter_from_zero(item, buffer, index) ==
    LET prefixed == IF index.some
                    THEN Buffer_push_text(buffer, usize_to_string(index.value) \o <<".", " ">>)
                    ELSE Buffer_push_text(buffer, <<"-", " ">>)
    IN  Buffer_push_newline(MdNodes_apply_formatter(item.nodes, prefixed))

MdListItemNode_apply_formatter(item, buffer, index) ==
    LET prefixed == IF index.some
                    THEN Buffer_push_text(buffer, usize_to_string(index.value + 1) \o <<".", " ">>)
                    ELSE Buffer_push_text(buffer, <<"-", " ">>)
    IN  Buffer_push_newline(MdNodes_apply_formatter(item.nodes, prefixed))

\* xs.iter().enumerate().for_each(..) from index ix on (ordered), or
\* xs.iter().for_each(..) (unordered)
MdListItems_apply_formatter(xs, buffer, ordered, ix) ==
    IF xs = <<>> THEN buffer
    ELSE MdListItems_apply_formatter(
            Tail(xs),
            MdListItemNode_apply_formatter(
                Head(xs), buffer,
                IF ordered THEN [some |-> TRUE, value |-> ix] ELSE [some |-> FALSE, value |-> 0]),
            ordered, ix + 1)

MdListNode_apply_formatter(list, buffer) ==
    Buffer_push_newline(
        MdListItems_apply_formatter(list.items, Buffer_push_newline(buffer),
                                    list.md = "Ordered", 0))

MdBlockNode_apply_formatter(block, buffer) ==
    CASE block.md = "Paragraph" ->
            Buffer_push_newline(MdNodes_apply_formatter(block.nodes, buffer))
      [] block.md = "Pre" ->
            LET subbuffer == MdNodes_apply_formatter(block.nodes, <<>>)
                fence_token == IF Buffer_contains_str(subbuffer, <<Grave, Grave, Grave>>)
                               THEN <<Grave, Grave, Grave, Grave>>
                               ELSE <<Grave, Grave, Grave>>
                opened == Buffer_push_newline(
                            Buffer_push_text(Buffer_ensure_newline(buffer), fence_token))
                filled == Buffer_merge_mut(opened, subbuffer)
            IN  Buffer_push_newline(Buffer_push_text(Buffer_ensure_newline(filled), fence_token))
      [] block.md = "List" -> MdListNode_apply_formatter(block.list, buffer)
      [] block.md = "BlockQuote" ->
            Buffer_push_newline(Buffer_push_newline(
                MdNodes_apply_formatter(block.nodes, Buffer_push_text(buffer, <<">", " ">>))))

MdNode_apply_formatter(n, buffer) ==
    CASE n.md = "Block" -> MdBlockNode_apply_formatter(n.node, buffer)
      [] n.md = "Inline" -> MdInlineNode_apply_formatter(n.node, buffer)

pretty_print_document(markdown) ==
    Buffer_finalize(MdNodes_apply_formatter(markdown.nodes, <<>>))

\* ---------------------------------------------------------------------------
\* text_format.rs
\* ---------------------------------------------------------------------------

\* Buffer::finalize of text_format.rs
TextFormat_finalize(buffer) ==
    Concat([i \in DOMAIN buffer |->
              CASE buffer[i].node = "Text" -> buffer[i].text
                [] buffer[i].node = "Newline" /\ buffer[i].type = "HardNewline" -> <<"\n", "\n">>
                [] buffer[i].node = "Newline" /\ buffer[i].type = "SoftNewline" -> <<"\n">>])

\* The apply_formatter functions of text_format.rs: the buffer they leave, or
\* the panic of an unimplemented!() reached while they ran.
RECURSIVE Node_apply_formatter(_, _), Fragment_apply_formatter(_, _)

Element_apply_formatter(element, buffer) ==
    IF as_normalized(element.tag) \in
          {<<"p">>, <<"p", "r", "e">>, <<"b", "l", "o", "c", "k", "q", "u", "o", "t", "e">>}
    THEN Fragment_apply_formatter(element.children, buffer)
    ELSE [panic |-> TRUE, buffer |-> buffer]

Node_apply_formatter(n, buffer) ==
    CASE n.kind = "Element" -> Element_apply_formatter(ElementOf(n), buffer)
      [] n.kind = "Fragment" -> Fragment_apply_formatter(n.nodes, buffer)
      [] n.kind = "Text" -> [panic |-> FALSE, buffer |-> Append(buffer, TextNode_Text(n.text))]

\* self.iter().for_each(|x| x.apply_formatter(buffer, scope))
Fragment_apply_formatter(fragment, buffer) ==
    IF fragment = <<>> THEN [panic |-> FALSE, buffer |-> buffer]
    ELSE LET first == Node_apply_formatter(Head(fragment), buffer)
         IN  IF first.panic THEN first
             ELSE Fragment_apply_formatter(Tail(fragment), first.buffer)

text_format_html(node) ==
    LET formatted == Node_apply_formatter(node, <<>>)
    IN  IF formatted.panic
        THEN [panic |-> TRUE, text |-> <<>>]
        ELSE [panic |-> FALSE, text |-> TextFormat_finalize(formatted.buffer)]

\* ---------------------------------------------------------------------------
\* Values of the variables an operation does not use
\* ---------------------------------------------------------------------------

NoTree == Node_empty
NoHooks == [text |-> "default", element |-> "default", fragment |-> "default"]
NoTag == TagBuf_new(<<>>)
NoSrc == [a |-> <<>>, b |-> <<>>]

TreeIdle ==
    /\ tree = NoTree /\ hooks = NoHooks /\ calls = <<>>

TagIdle ==
    /\ src = NoSrc /\ tagA = NoTag /\ tagB = NoTag

AttrsIdle ==
    /\ attrs = <<>> /\ other = <<>> /\ order = <<>> /\ displaced = FALSE

\* ---------------------------------------------------------------------------
\* Spec: the tree operations of ast.rs applied to every tree of MaxNodes nodes
\* ---------------------------------------------------------------------------

TreeFrame == UNCHANGED <<tree, hooks, calls, src, tagA, tagB, attrs, other, order, displaced>>

Init ==
    /\ tree \in TreesUpTo(MaxNodes)
    /\ hooks = NoHooks /\ calls = <<>>
    /\ op = "new" /\ out = <<>>
    /\ TagIdle /\ AttrsIdle

Flatten ==
    /\ op = "new"
    /\ op' = "flatten"
    /\ out' = Node_flatten(tree)
    /\ TreeFrame

\* flatten applied to the Fragment built from the nodes flatten returned
FlattenAgain ==
    /\ op = "flatten"
    /\ op' = "flatten_again"
    /\ out' = Fragment_flatten(out)
    /\ TreeFrame

ExtractElements ==
    /\ op = "new"
    /\ op' = "extract_elements"
    /\ out' = Node_extract_elements(tree)
    /\ TreeFrame

ExtractTextStrict ==
    /\ op = "new"
    /\ op' = "extract_text_strict"
    /\ out' = Node_extract_text_strict(tree)
    /\ TreeFrame

Next == Flatten \/ FlattenAgain \/ ExtractElements \/ ExtractTextStrict

Spec == Init /\ [][Next]_vars

\* ---------------------------------------------------------------------------
\* SpecTag: two tags built from every pair of names of MaxTagLen characters
\* ---------------------------------------------------------------------------

TagFrame == UNCHANGED <<tree, hooks, calls, src, tagA, tagB, attrs, other, order, displaced>>

InitTag ==
    /\ src \in [a : TagNames, b : TagNames]
    /\ tagA = TagBuf_new(src.a)
    /\ tagB = TagBuf_new(src.b)
    /\ op = "new" /\ out = <<>>
    /\ TreeIdle /\ AttrsIdle

Matches ==
    /\ op = "new"
    /\ op' = "matches"
    /\ out' = [ab |-> matches(tagA, tagB), ba |-> matches(tagB, tagA)]
    /\ TagFrame

Hash ==
    /\ op = "new"
    /\ op' = "hash"
    /\ out' = [a |-> TagBuf_hash(tagA), b |-> TagBuf_hash(tagB)]
    /\ TagFrame

\* Element::format of an element with tag tagA
RenderTag ==
    /\ op = "new"
    /\ \E children \in {<<>>, <<Text(<<"a">>)>>} :
         /\ op' = "render"
         /\ out' = [children |-> children,
                    text |-> Element_format([tag |-> tagA, attributes |-> <<>>,
                                             children |-> children])]
    /\ TagFrame

NextTag == Matches \/ Hash \/ RenderTag

SpecTag == InitTag /\ [][NextTag]_vars

\* ---------------------------------------------------------------------------
\* SpecAttrs: the operations of AttributeMap applied in any order
\* ---------------------------------------------------------------------------

AttrsFrame == UNCHANGED <<tree, hooks, calls, src, tagA, tagB, other>>

InitAttrs ==
    /\ attrs = <<>>
    /\ other \in OtherMaps
    /\ order = <<>>
    /\ displaced = FALSE
    /\ op = "new" /\ out = None
    /\ TreeIdle /\ TagIdle

\* The history of a step that takes the map from `before` to `after`: a key
\* that is gone leaves `order`, a new key joins it at the end, and `displaced`
\* records that a key that was not the last one is gone.
Track(before, after) ==
    /\ order' = SelectSeq(order, LAMBDA k : contains_key(after, k))
                \o SelectSeq(Keys(after), LAMBDA k : ~contains_key(before, k))
    /\ displaced' = (displaced \/ \E i \in 1..(Len(before) - 1) :
                                      ~contains_key(after, before[i].key))

Insert(k, v) ==
    /\ op' = "insert"
    /\ out' = AttributeMap_get(attrs, k)
    /\ attrs' = AttributeMap_insert(attrs, k, v)
    /\ Track(attrs, attrs')
    /\ AttrsFrame

Remove(k) ==
    /\ op' = "remove"
    /\ out' = AttributeMap_get(attrs, k)
    /\ attrs' = AttributeMap_remove(attrs, k)
    /\ Track(attrs, attrs')
    /\ AttrsFrame

Merge ==
    /\ op' = "merge"
    /\ out' = None
    /\ attrs' = AttributeMap_merge(attrs, other)
    /\ Track(attrs, attrs')
    /\ AttrsFrame

MergeIfAbsent ==
    /\ op' = "merge_if_absent"
    /\ out' = None
    /\ attrs' = AttributeMap_merge_if_absent(attrs, other)
    /\ Track(attrs, attrs')
    /\ AttrsFrame

GetOrInsertLiteral(k, default) ==
    /\ op' = "get_or_insert_literal"
    /\ attrs' = AttributeMap_get_or_insert_literal(attrs, k, default)
    /\ out' = AttributeMap_get(attrs', k)
    /\ Track(attrs, attrs')
    /\ AttrsFrame

\* entry(k).or_insert(v)
EntryOrInsert(k, v) ==
    /\ op' = "entry_or_insert"
    /\ attrs' = AttributeMapEntry_or_insert(attrs, AttributeMap_entry(attrs, k), v)
    /\ out' = AttributeMap_get(attrs', k)
    /\ Track(attrs, attrs')
    /\ AttrsFrame

\* entry(k) is Occupied(e); e.remove()
EntryRemove(k) ==
    /\ AttributeMap_entry(attrs, k).variant = "Occupied"
    /\ op' = "entry_remove"
    /\ out' = AttributeMap_get(attrs, k)
    /\ attrs' = OccupiedAttributeEntry_remove(attrs, AttributeMap_entry(attrs, k))
    /\ Track(attrs, attrs')
    /\ AttrsFrame

\* entry(k) is Vacant(e); e.insert(v)
EntryInsert(k, v) ==
    /\ AttributeMap_entry(attrs, k).variant = "Vacant"
    /\ op' = "entry_insert"
    /\ attrs' = VacantAttributeEntry_insert(attrs, AttributeMap_entry(attrs, k), v)
    /\ out' = AttributeMap_get(attrs', k)
    /\ Track(attrs, attrs')
    /\ AttrsFrame

NextAttrs ==
    \/ \E k \in AttrKeys, v \in AttrValues : Insert(k, v)
    \/ \E k \in AttrKeys : Remove(k)
    \/ Merge
    \/ MergeIfAbsent
    \/ \E k \in AttrKeys, v \in AttrValues : GetOrInsertLiteral(k, v)
    \/ \E k \in AttrKeys, v \in AttrValues : EntryOrInsert(k, v)
    \/ \E k \in AttrKeys : EntryRemove(k)
    \/ \E k \in AttrKeys, v \in AttrValues : EntryInsert(k, v)

SpecAttrs == InitAttrs /\ [][NextAttrs]_vars

\* ---------------------------------------------------------------------------
\* SpecRewrite: both rewriters applied to every tree of MaxRwNodes nodes, with
\* every rewriter
\* ---------------------------------------------------------------------------

RewriteFrame == UNCHANGED <<tree, hooks, src, tagA, tagB, attrs, other, order, displaced>>

InitRewrite ==
    /\ tree \in TreesUpTo(MaxRwNodes)
    /\ hooks \in Rewriters
    /\ calls = <<>>
    /\ op = "new" /\ out = NoTree
    /\ TagIdle /\ AttrsIdle

ApplyElementRewriter ==
    /\ op = "new"
    /\ op' = "apply_element_rewriter"
    /\ LET r == apply_element_rewriter(tree, hooks)
       IN  out' = r.node /\ calls' = r.calls
    /\ RewriteFrame

ApplyHtmlRewriter ==
    /\ op = "new"
    /\ op' = "apply_html_rewriter"
    /\ LET r == apply_html_rewriter(tree, hooks)
       IN  out' = r.node /\ calls' = r.calls
    /\ RewriteFrame

NextRewrite == ApplyElementRewriter \/ ApplyHtmlRewriter

SpecRewrite == InitRewrite /\ [][NextRewrite]_vars

\* ---------------------------------------------------------------------------
\* SpecTraverse: the reducer and both rewriters applied to every tree of
\* MaxRwNodes nodes
\* ---------------------------------------------------------------------------

ApplyHtmlReducer(r) ==
    /\ op = "new"
    /\ op' = "apply_html_reducer"
    /\ LET result == apply_html_reducer(tree, r)
       IN  /\ out' = [reducer |-> r, output |-> result.output]
           /\ calls' = result.calls
    /\ RewriteFrame

NextTraverse ==
    \/ \E r \in Reducers : ApplyHtmlReducer(r)
    \/ ApplyElementRewriter
    \/ ApplyHtmlRewriter

SpecTraverse == InitRewrite /\ [][NextTraverse]_vars

\* ---------------------------------------------------------------------------
\* SpecReduce: the reducer applied to every tree of MaxNodes nodes
\* ---------------------------------------------------------------------------

NextReduce == \E r \in Reducers : ApplyHtmlReducer(r)

SpecReduce == Init /\ [][NextReduce]_vars

\* ---------------------------------------------------------------------------
\* SpecFind: find_first on every tree of MaxNodes nodes
\* ---------------------------------------------------------------------------

\* The tags searched for: one that differs in case from the tag "b" of the
\* trees, one that differs in case from their tag "BR", one they do not have.
FindTargets == {TagBuf_new(<<"B">>), TagBuf_new(<<"b", "r">>), TagBuf_new(<<"r">>)}

InitFind ==
    /\ tree \in TreesUpTo(MaxNodes)
    /\ tagA \in FindTargets
    /\ hooks = NoHooks /\ calls = <<>>
    /\ src = NoSrc /\ tagB = NoTag
    /\ op = "new" /\ out = <<>>
    /\ AttrsIdle

\* find_first takes &self: the tree is not changed.
FindFirst ==
    /\ op = "new"
    /\ op' = "find_first"
    /\ out' = Node_find_first(tree, tagA)
    /\ TreeFrame

NextFind == FindFirst

SpecFind == InitFind /\ [][NextFind]_vars

\* ---------------------------------------------------------------------------
\* SpecFormat: Node::format on every tree of MaxFmtNodes nodes
\* ---------------------------------------------------------------------------

MaxFmtNodes == 3

\* The tag and attributes of the elements of the trees serialized: an inline
\* tag, a void inline tag in upper case with an attribute, a tag that is
\* neither inline nor void, and a raw-text tag.
FormatHeads ==
    { [tag |-> TagBuf_new(<<"b">>), attributes |-> <<>>],
      [tag |-> TagBuf_new(<<"B", "R">>),
       attributes |-> <<[key |-> <<"a">>, value |-> <<"1">>]>>],
      [tag |-> TagBuf_new(<<"r">>), attributes |-> <<>>],
      [tag |-> TagBuf_new(<<"s", "t", "y", "l", "e">>), attributes |-> <<>>] }

RECURSIVE FormatTreesOfSize(_), FormatForestsOfSize(_)
FormatTreesOfSize(n) ==
    IF n = 0 THEN {}
    ELSE (IF n = 1 THEN {Text(s) : s \in Texts} ELSE {})
         \cup {Fragment(f) : f \in FormatForestsOfSize(n - 1)}
         \cup {Element(h.tag, h.attributes, f) : h \in FormatHeads, f \in FormatForestsOfSize(n - 1)}

FormatForestsOfSize(n) ==
    IF n = 0 THEN {<<>>}
    ELSE UNION { {<<t>> \o f : t \in FormatTreesOfSize(k), f \in FormatForestsOfSize(n - k)} :
                 k \in 1..n }

FormatTreesUpTo(n) == UNION {FormatTreesOfSize(k) : k \in 1..n}

InitFormat ==
    /\ tree \in FormatTreesUpTo(MaxFmtNodes)
    /\ hooks = NoHooks /\ calls = <<>>
    /\ op = "new" /\ out = <<>>
    /\ TagIdle /\ AttrsIdle

FormatFrame == UNCHANGED <<tree, hooks, src, tagA, tagB, attrs, other, order, displaced>>

\* Node::format; calls records the environments of the rendering.
Format ==
    /\ op = "new"
    /\ op' = "format"
    /\ out' = Node_format(tree)
    /\ calls' = Node_render_environments(tree, FormatEnvironment_new, <<>>)
    /\ FormatFrame

NextFormat == Format

SpecFormat == InitFormat /\ [][NextFormat]_vars

\* ---------------------------------------------------------------------------
\* SpecFormatAttrs: format_attributes on every map of MaxFmtAttrs attributes
\* ---------------------------------------------------------------------------

MaxFmtAttrs == 2

\* Attribute values: empty, plain, with a double quote, with a backslash.
FormatValues == {<<>>, <<"1">>, <<"\"", "1">>, <<"\\">>}

InitFormatAttrs ==
    /\ attrs \in MapsUpTo(AttrKeys, FormatValues, MaxFmtAttrs)
    /\ other = <<>> /\ order = <<>> /\ displaced = FALSE
    /\ op = "new" /\ out = <<>>
    /\ TreeIdle /\ TagIdle

FormatAttributes ==
    /\ op = "new"
    /\ op' = "format_attributes"
    /\ out' = format_attributes(attrs)
    /\ UNCHANGED <<tree, hooks, calls, src, tagA, tagB, attrs, other, order, displaced>>

NextFormatAttrs == FormatAttributes

SpecFormatAttrs == InitFormatAttrs /\ [][NextFormatAttrs]_vars

\* ---------------------------------------------------------------------------
\* SpecPretty: pretty_format on every tree of MaxRwNodes nodes, for every way
\* the tidy subprocess can go
\* ---------------------------------------------------------------------------

InitPretty ==
    /\ tree \in TreesUpTo(MaxRwNodes)
    /\ hooks = NoHooks /\ calls = <<>>
    /\ op = "new" /\ out = <<>>
    /\ TagIdle /\ AttrsIdle

\* calls records how the subprocess went.
PrettyFormat(run) ==
    /\ op = "new"
    /\ op' = "pretty_format"
    /\ out' = Node_pretty_format(tree, run)
    /\ calls' = <<run>>
    /\ FormatFrame

NextPretty == \E run \in TidyRuns : PrettyFormat(run)

SpecPretty == InitPretty /\ [][NextPretty]_vars

\* ---------------------------------------------------------------------------
\* SpecMarkdown: to_markdown_document on every tree of MaxMdNodes nodes
\* ---------------------------------------------------------------------------

MaxMdNodes == 3

\* All trees of exactly n nodes over the given element tags (without
\* attributes) and texts, and all sequences of such trees of n nodes in all.
RECURSIVE TreesOfSizeOver(_, _, _), ForestsOfSizeOver(_, _, _)
TreesOfSizeOver(tags, texts, n) ==
    IF n = 0 THEN {}
    ELSE (IF n = 1 THEN {Text(s) : s \in texts} ELSE {})
         \cup {Fragment(f) : f \in ForestsOfSizeOver(tags, texts, n - 1)}
         \cup {Element(TagBuf_new(t), <<>>, f) :
                 t \in tags, f \in ForestsOfSizeOver(tags, texts, n - 1)}

ForestsOfSizeOver(tags, texts, n) ==
    IF n = 0 THEN {<<>>}
    ELSE UNION { {<<t>> \o f : t \in TreesOfSizeOver(tags, texts, k),
                               f \in ForestsOfSizeOver(tags, texts, n - k)} : k \in 1..n }

TreesUpToOver(tags, texts, n) == UNION {TreesOfSizeOver(tags, texts, k) : k \in 1..n}

\* The tags of the trees converted: the seven tags of the conversion, two of
\* them not in lower case, and a tag outside them.
MarkdownTags ==
    { <<"p">>, <<"p", "R", "e">>, <<"u", "l">>, <<"o", "l">>, <<"l", "i">>,
      <<"B", "l", "o", "c", "k", "q", "u", "o", "t", "e">>, <<"c", "o", "d", "e">>, <<"b">> }

InitMarkdown ==
    /\ tree \in TreesUpToOver(MarkdownTags, {<<"a">>}, MaxMdNodes)
    /\ hooks = NoHooks /\ calls = <<>>
    /\ op = "new" /\ out = <<>>
    /\ TagIdle /\ AttrsIdle

\* to_markdown_document(&[tree])
ToMarkdownDocument ==
    /\ op = "new"
    /\ op' = "to_markdown_document"
    /\ out' = to_markdown_document(<<tree>>)
    /\ TreeFrame

NextMarkdown == ToMarkdownDocument

SpecMarkdown == InitMarkdown /\ [][NextMarkdown]_vars

\* ---------------------------------------------------------------------------
\* SpecMdPre: pre elements with backticks, converted and pretty-printed
\* SpecMdList: lists of MaxListNodes nodes, converted and pretty-printed
\* ---------------------------------------------------------------------------

MaxListNodes == 4

InitMdPre ==
    /\ tree \in TreesUpToOver({<<"p", "r", "e">>},
                              {<<"a">>, <<Grave>>, <<Grave, Grave>>, <<Grave, Grave, Grave>>}, MaxMdNodes)
    /\ hooks = NoHooks /\ calls = <<>>
    /\ op = "new" /\ out = <<>>
    /\ TagIdle /\ AttrsIdle

InitMdList ==
    /\ tree \in TreesUpToOver({<<"u", "l">>, <<"o", "l">>, <<"l", "i">>}, {<<"a">>}, MaxListNodes)
    /\ hooks = NoHooks /\ calls = <<>>
    /\ op = "new" /\ out = <<>>
    /\ TagIdle /\ AttrsIdle

\* pretty_print_document on the document of a conversion that did not abort
PrettyPrintDocument ==
    /\ op = "to_markdown_document"
    /\ ~out.panic
    /\ op' = "pretty_print_document"
    /\ out' = [document |-> out.document, text |-> pretty_print_document(out.document)]
    /\ TreeFrame

NextMdPrint == ToMarkdownDocument \/ PrettyPrintDocument

SpecMdPre == InitMdPre /\ [][NextMdPrint]_vars

SpecMdList == InitMdList /\ [][NextMdPrint]_vars

\* ---------------------------------------------------------------------------
\* SpecTextFormat: text_format_html on every tree of MaxMdNodes nodes
\* ---------------------------------------------------------------------------

TextFormatHtml ==
    /\ op = "new"
    /\ op' = "text_format_html"
    /\ out' = text_format_html(tree)
    /\ TreeFrame

NextTextFormat == TextFormatHtml

SpecTextFormat == InitMarkdown /\ [][NextTextFormat]_vars

\* SpecFormatRaw: Node::format on trees whose texts hold markup characters
\* ---------------------------------------------------------------------------

MaxRawNodes == 4

\* Texts of the trees serialized: a plain one and two of markup characters.
RawTexts == {<<"a">>, <<"<">>, <<"&">>}

InitFormatRaw ==
    /\ tree \in TreesUpToOver({<<"b">>, <<"B", "R">>}, RawTexts, MaxRawNodes)
    /\ hooks = NoHooks /\ calls = <<>>
    /\ op = "new" /\ out = <<>>
    /\ TagIdle /\ AttrsIdle

SpecFormatRaw == InitFormatRaw /\ [][NextFormat]_vars

\* ---------------------------------------------------------------------------
\* ---------------------------------------------------------------------------
\* Document order, stated on paths
\* ---------------------------------------------------------------------------

\* The paths (child indices from the root) that lead through Fragment nodes
\* only to a node that is not a Fragment.
RECURSIVE FragPaths(_)
FragPaths(n) ==
    IF n.kind = "Fragment"
    THEN UNION { {<<i>> \o p : p \in FragPaths(n.nodes[i])} : i \in DOMAIN n.nodes }
    ELSE {<<>>}

RECURSIVE NodeAt(_, _)
NodeAt(n, p) == IF p = <<>> THEN n ELSE NodeAt(n.nodes[Head(p)], Tail(p))

\* p is left of q in the document (neither is a prefix of the other)
LeftOf(p, q) ==
    \E i \in 1..Len(p) :
        /\ i <= Len(q)
        /\ p[i] < q[i]
        /\ \A j \in 1..(i - 1) : p[j] = q[j]

\* The Text and Element nodes reachable from n through Fragment wrappers only,
\* from left to right.
ReachableInOrder(n) ==
    LET P == FragPaths(n)
    IN  [i \in 1..Cardinality(P) |->
            NodeAt(n, CHOOSE p \in P : Cardinality({q \in P : LeftOf(q, p)}) = i - 1)]

NoFragmentIn(nodes) == \A i \in DOMAIN nodes : nodes[i].kind # "Fragment"

IsElement(n) == n.kind = "Element"

NestedFragments(n) == \E p \in FragPaths(n) : Len(p) >= 2

\* ---------------------------------------------------------------------------
\* Claims
\* ---------------------------------------------------------------------------

\* C1: flatten returns no Fragment node, and returns exactly the Text and
\* Element nodes reachable through Fragment wrappers only, from left to right,
\* each as it is in the tree (an Element with its subtree).
C1_FlattenContract ==
    op = "flatten" => /\ NoFragmentIn(out)
                      /\ out = ReachableInOrder(tree)

C1_Witness ==
    /\ op = "flatten"
    /\ NestedFragments(tree)
    /\ Len(out) >= 2
    /\ \E i \in DOMAIN out : IsElement(out[i])

\* C2: flattening the Fragment built from flatten(T) gives flatten(T) again,
\* and no Fragment node is in it.
C2_FlattenIdempotent ==
    op = "flatten_again" => /\ out = Node_flatten(tree)
                            /\ NoFragmentIn(out)

C2_Witness ==
    /\ op = "flatten_again"
    /\ NestedFragments(tree)
    /\ out # <<>>

\* C3: extract_text_strict is Err exactly when an Element is reachable through
\* Fragment wrappers, and otherwise Ok of the texts from left to right.
C3_ExtractTextStrictContract ==
    op = "extract_text_strict" =>
        LET R == ReachableInOrder(tree)
        IN  IF \E i \in DOMAIN R : IsElement(R[i])
            THEN out = Err
            ELSE out = Ok([i \in DOMAIN R |-> R[i].text])

C3_Witness ==
    /\ op = "extract_text_strict"
    /\ tree = Fragment(<<Text(<<"a">>), Fragment(<<Text(<<"b">>)>>)>>)
    /\ out = Ok(<<<<"a">>, <<"b">>>>)

\* C4: extract_elements returns the Elements reachable through Fragment
\* wrappers from left to right, which are the Element members of flatten.
C4_ExtractElementsContract ==
    op = "extract_elements" =>
        LET E == SelectSeq(ReachableInOrder(tree), IsElement)
            F == SelectSeq(Node_flatten(tree), IsElement)
        IN  /\ out = [i \in DOMAIN E |-> ElementOf(E[i])]
            /\ out = [i \in DOMAIN F |-> ElementOf(F[i])]

C4_Witness ==
    /\ op = "extract_elements"
    /\ NestedFragments(tree)
    /\ Len(out) >= 1
    /\ \E p \in FragPaths(tree) : NodeAt(tree, p).kind = "Text"

\* Two strings of the same letters, whatever the case of each.
DiffersOnlyInCase(s, t) ==
    /\ Len(s) = Len(t)
    /\ \A i \in 1..Len(s) :
         \/ s[i] = t[i]
         \/ <<s[i], t[i]>> \in CasePairs
         \/ <<t[i], s[i]>> \in CasePairs

StartsWith(s, prefix) ==
    /\ Len(prefix) <= Len(s)
    /\ SubSeq(s, 1, Len(prefix)) = prefix

EndsWith(s, suffix) ==
    /\ Len(suffix) <= Len(s)
    /\ SubSeq(s, Len(s) - Len(suffix) + 1, Len(s)) = suffix

\* C5: tags whose names differ only in case match in both directions, and
\* as_original, and the name in the opening and the closing tag of the
\* rendered element, is the string the tag was built from.
C5_TagCase ==
    /\ as_original(tagA) = src.a
    /\ as_original(tagB) = src.b
    /\ (op = "matches" /\ DiffersOnlyInCase(src.a, src.b)) => (out.ab /\ out.ba)
    /\ op = "render" =>
         /\ StartsWith(out.text, <<"<">> \o src.a)
         /\ \/ out.text = <<"<">> \o src.a \o <<" ", "/", ">">>
            \/ /\ StartsWith(out.text, <<"<">> \o src.a \o <<">">>)
               /\ EndsWith(out.text, <<"<", "/">> \o src.a \o <<">">>)

C5_Witness ==
    /\ op = "matches"
    /\ src.a = <<"B", "R">>
    /\ src.b = <<"b", "r">>
    /\ out.ab /\ out.ba

\* C6: tags that match feed the same value to the hasher.
C6_MatchingTagsHashAlike ==
    (op = "hash" /\ matches(tagA, tagB)) => out.a = out.b

KeysDistinct(m) == \A i, j \in 1..Len(m) : m[i].key = m[j].key => i = j

\* C7 as stated: after any operations the keys are distinct and iteration is
\* in the order in which the keys present were first inserted.
C7_InsertionOrderAlways ==
    /\ KeysDistinct(attrs)
    /\ Keys(attrs) = order

\* C7 amended: the keys are distinct, and iteration is in the order in which
\* the keys present were first inserted as long as no remove has taken out a
\* key that was not the last one.
C7_InsertionOrderUntilSwapRemove ==
    /\ KeysDistinct(attrs)
    /\ ~displaced => Keys(attrs) = order

C7_Witness ==
    /\ ~displaced
    /\ Keys(attrs) = <<<<"b">>, <<"a">>, <<"c">>>>
    /\ op = "insert"
    /\ out # None

\* C8: merge_if_absent leaves every pair of the receiver where it is and as
\* it is, appends the pairs of other whose keys were absent in other's order,
\* and leaves other unchanged.
C8_MergeIfAbsentFrame ==
    [][op' = "merge_if_absent" =>
        /\ other' = other
        /\ Len(attrs') >= Len(attrs)
        /\ SubSeq(attrs', 1, Len(attrs)) = attrs
        /\ SubSeq(attrs', Len(attrs) + 1, Len(attrs'))
             = SelectSeq(other, LAMBDA p : ~contains_key(attrs, p.key))]_vars

C8_Witness ==
    /\ op = "merge_if_absent"
    /\ Len(attrs) = 3
    /\ attrs[3].key \in {other[i].key : i \in DOMAIN other}
    /\ \E i \in DOMAIN other :
         /\ contains_key(attrs, other[i].key)
         /\ AttributeMap_get(attrs, other[i].key) # Some(other[i].value)

\* The Fragment a hook call receives: the argument of visit_fragment, the
\* children of visit_element.
FragmentGivenTo(call) ==
    IF call.hook = "visit_fragment" THEN call.arg.nodes ELSE call.arg.children

\* C9: under the Full Rewriter every Fragment given to visit_fragment and every
\* children Fragment given to visit_element has no Fragment node as a direct
\* child, whatever the hooks return.
C9_FullRewriterSeesFlatFragments ==
    op = "apply_html_rewriter" =>
        \A i \in DOMAIN calls :
            calls[i].hook \in {"visit_fragment", "visit_element"}
                => NoFragmentIn(FragmentGivenTo(calls[i]))

\* C10: under the Element Rewriter the children Fragment given to
\* visit_element has no Fragment node as a direct child.
C10_ElementRewriterSeesFlatChildren ==
    op = "apply_element_rewriter" =>
        \A i \in DOMAIN calls :
            calls[i].hook = "visit_element" => NoFragmentIn(FragmentGivenTo(calls[i]))

\* ---------------------------------------------------------------------------
\* Positions of a whole tree (through elements as well as fragments)
\* ---------------------------------------------------------------------------

\* The child nodes of a node: the nodes of a Fragment, the children of an Element.
ChildNodes(n) ==
    CASE n.kind = "Fragment" -> n.nodes
      [] n.kind = "Element" -> n.children
      [] n.kind = "Text" -> <<>>

\* The paths of all nodes of the tree n; <<>> is n itself.
RECURSIVE AllPaths(_)
AllPaths(n) ==
    {<<>>} \cup UNION { {<<i>> \o p : p \in AllPaths(ChildNodes(n)[i])} : i \in DOMAIN ChildNodes(n) }

RECURSIVE NodeAtPath(_, _)
NodeAtPath(n, p) == IF p = <<>> THEN n ELSE NodeAtPath(ChildNodes(n)[Head(p)], Tail(p))

IsProperPrefix(p, q) == Len(p) < Len(q) /\ SubSeq(q, 1, Len(p)) = p

\* Pre-order: a node before its descendants, then left to right.
PreOrderBefore(p, q) == IsProperPrefix(p, q) \/ LeftOf(p, q)

\* Post-order: the descendants of a node before it, otherwise left to right.
PostOrderBefore(p, q) == IsProperPrefix(q, p) \/ LeftOf(p, q)

PathsOfKind(n, kind) == {p \in AllPaths(n) : NodeAtPath(n, p).kind = kind}

\* The paths of P from first to last under the given order.
InPreOrder(P) ==
    [i \in 1..Cardinality(P) |->
        CHOOSE p \in P : Cardinality({q \in P : PreOrderBefore(q, p)}) = i - 1]

InPostOrder(P) ==
    [i \in 1..Cardinality(P) |->
        CHOOSE p \in P : Cardinality({q \in P : PostOrderBefore(q, p)}) = i - 1]

CallsOf(hook) == SelectSeq(calls, LAMBDA c : c.hook = hook)

\* A Fragment node below some Element: Element::full_markup_visitor flattens
\* it away before it descends.
BelowAnElement(n, p) ==
    \E q \in AllPaths(n) : IsProperPrefix(q, p) /\ NodeAtPath(n, q).kind = "Element"

\* The visit_text calls are for the Text nodes, one each, in document order.
OneVisitPerText ==
    LET T == InPreOrder(PathsOfKind(tree, "Text"))
        V == CallsOf("visit_text")
    IN  /\ Len(V) = Len(T)
        /\ \A i \in DOMAIN V :
             NodeAtPath(tree, T[i]).text
               = (IF op = "apply_html_reducer" THEN V[i].arg ELSE V[i].arg.text)

\* The visit_element calls are for the Element nodes, one each, in post-order,
\* each with the tag and attributes of its node.
OneVisitPerElement ==
    LET E == InPostOrder(PathsOfKind(tree, "Element"))
        V == CallsOf("visit_element")
    IN  /\ Len(V) = Len(E)
        /\ \A i \in DOMAIN V :
             /\ NodeAtPath(tree, E[i]).tag = V[i].arg.tag
             /\ NodeAtPath(tree, E[i]).attributes = V[i].arg.attributes

\* The visit_fragment calls that are left for the Fragment nodes, when one call
\* is set aside for each Element's children Fragment.
FragmentVisitsForNodes ==
    Len(CallsOf("visit_fragment")) - Cardinality(PathsOfKind(tree, "Element"))

\* C11 as stated: one traversal makes exactly one visit_text per Text node, one
\* visit_element per Element node and one visit_fragment per Fragment node
\* (the visit_fragment call for an Element's children Fragment is not held
\* against the claim).
C11_OneHookPerNode ==
    /\ op \in {"apply_html_reducer", "apply_html_rewriter"} =>
         /\ OneVisitPerText
         /\ OneVisitPerElement
         /\ FragmentVisitsForNodes = Cardinality(PathsOfKind(tree, "Fragment"))
    /\ op = "apply_element_rewriter" =>
         /\ OneVisitPerElement
         /\ Len(calls) = Len(CallsOf("visit_element"))

\* C11 amended: as stated for the Reducer and the Element Rewriter; under the
\* Full Rewriter only the Fragment nodes that are not below an Element get a
\* visit_fragment call.
C11_OneHookPerNodeLeftAfterFlatten ==
    /\ op \in {"apply_html_reducer", "apply_html_rewriter"} =>
         /\ OneVisitPerText
         /\ OneVisitPerElement
         /\ Len(calls) = Len(CallsOf("visit_text")) + Len(CallsOf("visit_element"))
                           + Len(CallsOf("visit_fragment"))
    /\ op = "apply_html_reducer" =>
         FragmentVisitsForNodes = Cardinality(PathsOfKind(tree, "Fragment"))
    /\ op = "apply_html_rewriter" =>
         FragmentVisitsForNodes
           = Cardinality({p \in PathsOfKind(tree, "Fragment") : ~BelowAnElement(tree, p)})
    /\ op = "apply_element_rewriter" =>
         /\ OneVisitPerElement
         /\ Len(calls) = Len(CallsOf("visit_element"))

C11_Witness ==
    /\ op = "apply_html_rewriter"
    /\ \E p \in PathsOfKind(tree, "Fragment") : BelowAnElement(tree, p)
    /\ \E p \in PathsOfKind(tree, "Text") : TRUE
    /\ Len(CallsOf("visit_fragment")) = 1

\* The rewriter whose three hooks are the trait's defaults.
DefaultHooks == [text |-> "default", element |-> "default", fragment |-> "default"]

\* The number of Element nodes above the node at p.
ElementDepth(n, p) ==
    Cardinality({i \in 0..(Len(p) - 1) : NodeAtPath(n, SubSeq(p, 1, i)).kind = "Element"})

\* What a Text or Element node is apart from its children.
Label(n) ==
    IF n.kind = "Text"
    THEN [kind |-> "Text", text |-> n.text]
    ELSE [kind |-> "Element", tag |-> n.tag, attributes |-> n.attributes]

\* The Text and Element nodes of n in document order, each with the number of
\* Elements above it: the tree n apart from its Fragment wrappers.
Skeleton(n) ==
    LET P == InPreOrder(AllPaths(n) \ PathsOfKind(n, "Fragment"))
    IN  [i \in DOMAIN P |->
            [depth |-> ElementDepth(n, P[i]), label |-> Label(NodeAtPath(n, P[i]))]]

\* C12: the Full Rewriter with default hooks returns a tree with no Fragment
\* node below its root (none as a child of a Fragment or of an Element), whose
\* Text and Element nodes, tags, attributes, nesting and document order are
\* those of the tree it was given.
C12_IdentityRewriterFlattens ==
    (op = "apply_html_rewriter" /\ hooks = DefaultHooks) =>
        /\ PathsOfKind(out, "Fragment") \subseteq {<<>>}
        /\ Skeleton(out) = Skeleton(tree)
        /\ out.kind = tree.kind

C12_Witness ==
    /\ op = "apply_html_rewriter"
    /\ hooks = DefaultHooks
    /\ \E p \in PathsOfKind(tree, "Fragment") :
         /\ Len(p) = 1
         /\ ChildNodes(NodeAtPath(tree, p)) # <<>>
    /\ out # tree

\* The tree as the reducer walks it: the children of an Element are one
\* Fragment, reduced through visit_fragment before visit_element.
RECURSIVE ReducerView(_)
ReducerView(n) ==
    CASE n.kind = "Text" -> n
      [] n.kind = "Fragment" -> Fragment([i \in DOMAIN n.nodes |-> ReducerView(n.nodes[i])])
      [] n.kind = "Element" ->
            Element(n.tag, n.attributes,
                    <<Fragment([i \in DOMAIN n.children |-> ReducerView(n.children[i])])>>)

PositionOf(P, p) == CHOOSE i \in DOMAIN P : P[i] = p

\* C13: the hook calls of a reducer traversal are the nodes of the tree (an
\* Element's children taken as one Fragment) in post-order, one call each:
\* visit_text with the text, visit_fragment with what the calls for the
\* children returned, from left to right, visit_element with the element's tag
\* and attributes and what the call for its children Fragment returned; each
\* call returns what the hook computes and the traversal returns what the last
\* call returned.
C13_ReducerPostOrder ==
    op = "apply_html_reducer" =>
        LET view == ReducerView(tree)
            P == InPostOrder(AllPaths(view))
            ReturnedAt(p) == calls[PositionOf(P, p)].ret
        IN  /\ Len(calls) = Len(P)
            /\ \A i \in DOMAIN calls :
                 LET n == NodeAtPath(view, P[i])
                     c == calls[i]
                 IN  CASE n.kind = "Text" ->
                            /\ c.hook = "visit_text"
                            /\ c.arg = n.text
                            /\ c.ret = reducer_visit_text(out.reducer, n.text)
                       [] n.kind = "Fragment" ->
                            /\ c.hook = "visit_fragment"
                            /\ c.arg = [k \in DOMAIN n.nodes |-> ReturnedAt(Append(P[i], k))]
                            /\ c.ret = reducer_visit_fragment(out.reducer, c.arg)
                            /\ \A k \in DOMAIN n.nodes : PositionOf(P, Append(P[i], k)) < i
                       [] n.kind = "Element" ->
                            /\ c.hook = "visit_element"
                            /\ c.arg = [tag |-> n.tag, attributes |-> n.attributes,
                                        children |-> ReturnedAt(Append(P[i], 1))]
                            /\ c.ret = reducer_visit_element(out.reducer, n.tag, n.attributes,
                                                             c.arg.children)
                            /\ PositionOf(P, Append(P[i], 1)) = i - 1
            /\ out.output = calls[Len(calls)].ret

C13_Witness ==
    /\ op = "apply_html_reducer"
    /\ out.reducer = "term"
    /\ tree.kind = "Fragment"
    /\ Len(tree.nodes) = 2
    /\ tree.nodes[1].kind = "Text"
    /\ tree.nodes[2].kind = "Element"
    /\ tree.nodes[2].children # <<>>
    /\ Len(calls) = 5

\* C14: the counting reducer returns the number of Text and Element nodes of
\* the tree, which is also what it returns for the flattened tree and for the
\* tree inside one more Fragment wrapper.
C14_CountingReducer ==
    (op = "apply_html_reducer" /\ out.reducer = "count") =>
        /\ out.output = Cardinality(PathsOfKind(tree, "Text") \cup PathsOfKind(tree, "Element"))
        /\ out.output = apply_html_reducer(Fragment(Node_flatten(tree)), "count").output
        /\ out.output = apply_html_reducer(Fragment(<<tree>>), "count").output

C14_Witness ==
    /\ op = "apply_html_reducer"
    /\ out.reducer = "count"
    /\ out.output = 2
    /\ \E p \in PathsOfKind(tree, "Fragment") : Len(p) = 1
    /\ \E p \in PathsOfKind(tree, "Element") : TRUE

\* The paths of the Elements of n whose tag equals the target when both are
\* lowercased.
MatchingElements(n, target) ==
    {p \in PathsOfKind(n, "Element") :
        to_lowercase(NodeAtPath(n, p).tag.original) = to_lowercase(target.original)}

\* C15: find_first leaves the tree as it was and returns the Element (with its
\* whole subtree) at the first path in pre-order whose tag equals the target
\* case-insensitively, and None exactly when no Element of the tree does.
C15_FindFirstPreOrder ==
    [][op' = "find_first" =>
        /\ tree' = tree
        /\ LET M == MatchingElements(tree, tagA)
           IN  /\ M = {} <=> out' = None
               /\ M # {} => out' = Some(NodeAtPath(tree, InPreOrder(M)[1]))]_vars

C15_Witness ==
    /\ op = "find_first"
    /\ out.some
    /\ out.value.tag.original # tagA.original
    /\ out.value.children # <<>>
    /\ Cardinality(MatchingElements(tree, tagA)) >= 2
    /\ <<>> \notin MatchingElements(tree, tagA)

\* The tag as written, lowercased, is in the void set.
VoidWhenLowercased(tag) == to_lowercase(tag.original) \in VOID_TAGS

\* C16: an Element whose lowercased tag is in the void set and that has no
\* children is serialized as `<tag attrs />`; every other Element as
\* `<tag attrs>`, its children's serializations, `</tag>`; the tag is written
\* as it was given.
C16_VoidFormOnNormalizedTag ==
    (op = "format" /\ tree.kind = "Element") =>
        LET open == <<"<">> \o tree.tag.original \o format_attributes(tree.attributes)
        IN  IF VoidWhenLowercased(tree.tag) /\ tree.children = <<>>
            THEN out = open \o <<" ", "/", ">">>
            ELSE out = open \o <<">">>
                       \o Concat([i \in DOMAIN tree.children |-> Node_format(tree.children[i])])
                       \o <<"<", "/">> \o tree.tag.original \o <<">">>

C16_Witness ==
    /\ op = "format"
    /\ tree.kind = "Element"
    /\ tree.tag.original = <<"B", "R">>
    /\ tree.children = <<>>
    /\ out = <<"<", "B", "R", " ", "a", "=", "\"", "1", "\"", " ", "/", ">">>

\* The value between double quotes, each `"` and `\` of it after a backslash.
RECURSIVE Escaped(_)
Escaped(s) ==
    IF s = <<>> THEN <<>>
    ELSE (CASE Head(s) = "\"" -> <<"\\", "\"">>
            [] Head(s) = "\\" -> <<"\\", "\\">>
            [] OTHER -> <<Head(s)>>)
         \o Escaped(Tail(s))

RECURSIVE SpacedItems(_)
SpacedItems(m) ==
    IF m = <<>> THEN <<>>
    ELSE <<" ">> \o Head(m).key \o <<"=", "\"">> \o Escaped(Head(m).value) \o <<"\"">>
         \o SpacedItems(Tail(m))

\* C17: the attributes are rendered as the empty string for an empty map and
\* otherwise as, for each key of the map in iteration order, one space, the
\* key, `=` and the value quoted and escaped.
C17_AttributesRendering ==
    op = "format_attributes" =>
        /\ out = SpacedItems(attrs)
        /\ attrs = <<>> <=> out = <<>>
        /\ attrs # <<>> => (Head(out) = " " /\ out[Len(out)] = "\"")
        /\ Cardinality({i \in DOMAIN out : out[i] = "="}) = Len(attrs)

C17_Witness ==
    /\ op = "format_attributes"
    /\ Len(attrs) = 2
    /\ attrs[1].key = <<"b">> /\ attrs[2].key = <<"a">>
    /\ attrs[1].value = <<"\"", "1">>
    /\ attrs[2].value = <<>>
    /\ out = <<" ", "b", "=", "\"", "\\", "\"", "1", "\"", " ", "a", "=", "\"", "\"">>

\* The tag as written, lowercased, is in the inline set.
InlineWhenLowercased(tag) == to_lowercase(tag.original) \in INLINE_TAGS

\* Some Element above the node at p has an inline tag.
InlineAbove(n, p) ==
    \E q \in AllPaths(n) :
        /\ IsProperPrefix(q, p)
        /\ NodeAtPath(n, q).kind = "Element"
        /\ InlineWhenLowercased(NodeAtPath(n, q).tag)

\* C18: render_impl runs once on every node; the root is given mode Block, a
\* node is given mode Inline exactly when some Element above it has an inline
\* tag, and no scope call answers Block to an Inline environment.
C18_InlineIsInherited ==
    op = "format" =>
        /\ {calls[i].path : i \in DOMAIN calls} = AllPaths(tree)
        /\ Len(calls) = Cardinality(AllPaths(tree))
        /\ calls[1].environment.format_type = "Block"
        /\ \A i \in DOMAIN calls :
             LET e == calls[i]
                 n == NodeAtPath(tree, e.path)
             IN  /\ e.environment.format_type
                      = (IF InlineAbove(tree, e.path) THEN "Inline" ELSE "Block")
                 /\ e.inner.format_type
                      = (IF \/ InlineAbove(tree, e.path)
                            \/ (n.kind = "Element" /\ InlineWhenLowercased(n.tag))
                         THEN "Inline" ELSE "Block")
                 /\ e.environment.format_type = "Inline" => e.inner.format_type = "Inline"

C18_Witness ==
    /\ op = "format"
    /\ tree.kind = "Element"
    /\ ~InlineWhenLowercased(tree.tag)
    /\ \E i \in DOMAIN calls :
         /\ Len(calls[i].path) = 2
         /\ NodeAtPath(tree, calls[i].path).kind = "Element"
         /\ ~InlineWhenLowercased(NodeAtPath(tree, calls[i].path).tag)
         /\ calls[i].environment.format_type = "Inline"
         /\ calls[i].inner.format_type = "Inline"

\* C19: in every environment of a rendering, the one render_impl is given and
\* the one it hands down, the escape-tokens flag is off.
C19_EscapeTokensStaysOff ==
    op = "format" =>
        /\ calls # <<>>
        /\ \A i \in DOMAIN calls :
             /\ ~calls[i].environment.escape_tokens
             /\ ~calls[i].inner.escape_tokens

C19_Witness ==
    /\ op = "format"
    /\ \E i \in DOMAIN calls :
         /\ Len(calls[i].path) = 2
         /\ NodeAtPath(tree, SubSeq(calls[i].path, 1, 1)).kind = "Element"
         /\ NodeAtPath(tree, SubSeq(calls[i].path, 1, 1)).tag.normalized
              = <<"s", "t", "y", "l", "e">>
         /\ ~calls[i].environment.escape_tokens

\* The formatter failed: it could not be spawned, written to or waited for,
\* a signal ended it, it printed bytes that are not UTF-8, or it ended with an
\* exit code other than 0 and 1.
FormatterFailed(run) ==
    \/ run.stage \in {"spawn", "write", "wait"}
    \/ /\ run.stage = "exited"
       /\ \/ ~run.code.some
          \/ ~run.stdout_utf8
          \/ ~run.stderr_utf8
          \/ run.code.value \notin {0, 1}

\* C20: whenever the formatter fails, pretty_format returns the compact
\* serialization of the tree (it does not panic).
C20_PrettyFormatNeverAborts ==
    (op = "pretty_format" /\ FormatterFailed(calls[1])) =>
        /\ out.result = "returned"
        /\ out.value = Node_format(tree)

\* C21: when tidy's output was collected, exit code 0 or 1 makes prettify_html
\* return Ok with what tidy printed, and pretty_format return it; every other
\* exit status, a missing exit code included, makes prettify_html return an
\* error and pretty_format return the compact serialization.
C21_ExitStatusDecides ==
    (op = "pretty_format" /\ calls[1].stage = "exited") =>
        LET run == calls[1]
            compact == Node_format(tree)
            pretty == prettify_html(compact, run)
        IN  IF run.code.some /\ run.code.value \in {0, 1}
            THEN /\ pretty.result = "Ok"
                 /\ pretty.value = run.stdout
                 /\ out.result = "returned"
                 /\ out.value = run.stdout
            ELSE /\ pretty.result = "Err"
                 /\ out.result = "returned"
                 /\ out.value = compact

\* ---------------------------------------------------------------------------
\* HTML to Markdown: where an Element stands
\* ---------------------------------------------------------------------------

LowerTagAt(n, p) == to_lowercase(NodeAtPath(n, p).tag.original)

\* The Elements above the node at p.
ElementsAbove(n, p) ==
    {q \in PathsOfKind(n, "Element") : IsProperPrefix(q, p)}

\* The lowercased tag of the nearest Element above the node at p, <<>> when
\* only Fragments are above it.
ParentTag(n, p) ==
    IF ElementsAbove(n, p) = {} THEN <<>>
    ELSE LowerTagAt(n, CHOOSE q \in ElementsAbove(n, p) :
                           \A r \in ElementsAbove(n, p) : Len(r) <= Len(q))

ListTags == {<<"u", "l">>, <<"o", "l">>}

BlockTags == {<<"p">>, <<"p", "r", "e">>, <<"b", "l", "o", "c", "k", "q", "u", "o", "t", "e">>}

ConvertedTags == BlockTags \cup ListTags \cup {<<"l", "i">>, <<"c", "o", "d", "e">>}

\* Every Element is one the conversion takes where it stands: li below a
\* list and nothing else there, code below code and nothing else there, and
\* elsewhere a block, a list or code.
Convertible(n) ==
    \A p \in PathsOfKind(n, "Element") :
        CASE ParentTag(n, p) \in ListTags -> LowerTagAt(n, p) = <<"l", "i">>
          [] ParentTag(n, p) = <<"c", "o", "d", "e">> -> LowerTagAt(n, p) = <<"c", "o", "d", "e">>
          [] OTHER -> LowerTagAt(n, p) \in BlockTags \cup ListTags \cup {<<"c", "o", "d", "e">>}

\* The document of the children of the Element n.
ChildrenConverted(n) == to_markdown_document(n.children).document.nodes

\* C22: a tree with an Element whose lowercased tag is outside p, pre, ul, ol,
\* li, blockquote, code aborts the conversion; the conversion aborts exactly
\* when some Element is not taken where it stands; when it does not abort, a
\* Text becomes an inline Text, p, pre and blockquote the block of that name
\* around the converted children, ul and ol one list node, code one CodeSpan
\* of inline nodes.
C22_ClosedTagSet ==
    op = "to_markdown_document" =>
        /\ (\E p \in PathsOfKind(tree, "Element") : LowerTagAt(tree, p) \notin ConvertedTags)
              => out.panic
        /\ out.panic <=> ~Convertible(tree)
        /\ ~out.panic =>
             LET nodes == out.document.nodes
                 tag == to_lowercase(tree.tag.original)
             IN  CASE tree.kind = "Text" -> nodes = <<MdInline(MdText(tree.text))>>
                   [] tree.kind = "Fragment" -> TRUE
                   [] tree.kind = "Element" ->
                        /\ Len(nodes) = 1
                        /\ CASE tag = <<"p">> ->
                                   nodes[1] = MdBlock(MdParagraph(ChildrenConverted(tree)))
                             [] tag = <<"p", "r", "e">> ->
                                   nodes[1] = MdBlock(MdPre(ChildrenConverted(tree)))
                             [] tag \in BlockTags \ {<<"p">>, <<"p", "r", "e">>} ->
                                   nodes[1] = MdBlock(MdBlockQuote(ChildrenConverted(tree)))
                             [] tag = <<"u", "l">> ->
                                   /\ nodes[1].md = "Block" /\ nodes[1].node.md = "List"
                                   /\ nodes[1].node.list.md = "Unordered"
                             [] tag = <<"o", "l">> ->
                                   /\ nodes[1].md = "Block" /\ nodes[1].node.md = "List"
                                   /\ nodes[1].node.list.md = "Ordered"
                             [] tag = <<"c", "o", "d", "e">> ->
                                   /\ nodes[1].md = "Inline" /\ nodes[1].node.md = "CodeSpan"
                                   /\ \A i \in DOMAIN nodes[1].node.nodes :
                                        nodes[1].node.nodes[i].md \in {"CodeSpan", "Text"}

C22_Witness ==
    /\ op = "to_markdown_document"
    /\ ~out.panic
    /\ tree.kind = "Element"
    /\ tree.tag.original = <<"p", "R", "e">>
    /\ out.document.nodes
         = <<MdBlock(MdPre(<<MdInline(MdCodeSpan(<<MdText(<<"a">>)>>))>>))>>

\* The number of list items in a Markdown node.
RECURSIVE MdItemCount(_)
MdItemCount(m) ==
    CASE m.md \in {"Block", "Inline"} -> MdItemCount(m.node)
      [] m.md \in {"Paragraph", "Pre", "BlockQuote", "CodeSpan"} ->
            Sum([i \in DOMAIN m.nodes |-> MdItemCount(m.nodes[i])])
      [] m.md = "List" -> MdItemCount(m.list)
      [] m.md \in {"Unordered", "Ordered"} ->
            Sum([i \in DOMAIN m.items |-> MdItemCount(m.items[i])])
      [] m.md = "ListItem" -> 1 + Sum([i \in DOMAIN m.nodes |-> MdItemCount(m.nodes[i])])
      [] m.md = "Text" -> 0

\* The li Elements of n.
ListItemElements(n) == {p \in PathsOfKind(n, "Element") : LowerTagAt(n, p) = <<"l", "i">>}

\* C23: an li whose nearest Element above is not a ul or ol (none above it, or
\* p, pre, blockquote, code or li) aborts the conversion; when the conversion
\* does not abort, every li stands directly (through Fragments only) below a ul
\* or ol and the document has one list item for each.
C23_ListItemOnlyInList ==
    op = "to_markdown_document" =>
        /\ (\E p \in ListItemElements(tree) : ParentTag(tree, p) \notin ListTags) => out.panic
        /\ ~out.panic =>
             /\ \A p \in ListItemElements(tree) : ParentTag(tree, p) \in ListTags
             /\ Sum([i \in DOMAIN out.document.nodes |-> MdItemCount(out.document.nodes[i])])
                  = Cardinality(ListItemElements(tree))

C23_Witness ==
    /\ op = "to_markdown_document"
    /\ out.panic
    /\ tree.kind = "Element"
    /\ LowerTagAt(tree, <<>>) \in ListTags
    /\ ListItemElements(tree) = {<<1>>, <<1, 1>>}

\* C24: a Pre block is printed between two equal fences, each on a line of its
\* own: four backticks when what is printed for the block's children contains
\* three backticks in a row, three backticks otherwise.
C24_FenceEscalation ==
    (op = "pretty_print_document" /\ tree.kind = "Element") =>
        LET pre == out.document.nodes[1].node
            content == pretty_print_document(MarkdownDocument(pre.nodes))
            fence == IF str_contains(content, <<Grave, Grave, Grave>>)
                     THEN <<Grave, Grave, Grave, Grave>>
                     ELSE <<Grave, Grave, Grave>>
        IN  /\ pre.md = "Pre"
            /\ StartsWith(out.text, <<"\n">> \o fence \o <<"\n">>)
            /\ EndsWith(out.text, <<"\n">> \o fence \o <<"\n">>)

\* A Markdown node of lists and texts as the text the printer is to give it.
RECURSIVE MdExpected(_)
MdExpected(m) ==
    CASE m.md \in {"Block", "Inline"} -> MdExpected(m.node)
      [] m.md = "List" -> MdExpected(m.list)
      [] m.md = "Text" -> m.text
      [] m.md = "ListItem" -> Concat([i \in DOMAIN m.nodes |-> MdExpected(m.nodes[i])])
      [] m.md = "Unordered" ->
            <<"\n">>
            \o Concat([k \in DOMAIN m.items |->
                         <<"-", " ">> \o MdExpected(m.items[k]) \o <<"\n">>])
            \o <<"\n">>
      [] m.md = "Ordered" ->
            <<"\n">>
            \o Concat([k \in DOMAIN m.items |->
                         usize_to_string(k) \o <<".", " ">> \o MdExpected(m.items[k]) \o <<"\n">>])
            \o <<"\n">>

\* C25: a list is printed as a newline, its items in order and a newline; the
\* k-th item of an ordered list as "k. ", of an unordered list as "- ", then
\* what the item holds (nested lists numbered from 1 again) and a newline.
C25_ListRendering ==
    op = "pretty_print_document" =>
        out.text = Concat([i \in DOMAIN out.document.nodes |-> MdExpected(out.document.nodes[i])])

C25_Witness ==
    /\ op = "pretty_print_document"
    /\ tree.kind = "Element"
    /\ LowerTagAt(tree, <<>>) = <<"o", "l">>
    /\ Len(out.document.nodes[1].node.list.items) = 2
    /\ out.text = <<"\n", "1", ".", " ", "a", "\n", "2", ".", " ", "\n", "\n">>

\* The Elements of the list n that have no Element but n above them.
ListElements(n) == {p \in PathsOfKind(n, "Element") : ElementsAbove(n, p) = {<<>>}}

\* C30: converting a ul or ol aborts when an Element among its children
\* (through Fragments) is not an li; otherwise the list has one item for each
\* of these Elements, in document order, holding that Element's converted
\* children, and nothing for the Text nodes among them.
C30_OneItemPerListElement ==
    (op = "to_markdown_document" /\ tree.kind = "Element"
        /\ LowerTagAt(tree, <<>>) \in ListTags) =>
        LET E == InPreOrder(ListElements(tree))
        IN  /\ (\E i \in DOMAIN E : LowerTagAt(tree, E[i]) # <<"l", "i">>) => out.panic
            /\ ~out.panic =>
                 /\ Len(out.document.nodes) = 1
                 /\ out.document.nodes[1].node.list.md
                      = (IF LowerTagAt(tree, <<>>) = <<"u", "l">> THEN "Unordered" ELSE "Ordered")
                 /\ out.document.nodes[1].node.list.items
                      = [i \in DOMAIN E |->
                            MdListItemNode(ChildrenConverted(NodeAtPath(tree, E[i])))]

C30_Witness ==
    /\ op = "to_markdown_document"
    /\ ~out.panic
    /\ tree.kind = "Element"
    /\ LowerTagAt(tree, <<>>) = <<"u", "l">>
    /\ Len(tree.children) = 2
    /\ tree.children[1].kind = "Text"
    /\ tree.children[2].kind = "Fragment"
    /\ Len(out.document.nodes[1].node.list.items) = 1

\* C26: text_format_html runs to completion on every tree; on a tree without
\* Elements (empty Fragments included) it returns the texts of the tree.
C26_TextFormatCompletes ==
    op = "text_format_html" =>
        /\ ~out.panic
        /\ PathsOfKind(tree, "Element") = {} =>
             out.text = Concat([i \in DOMAIN InPreOrder(PathsOfKind(tree, "Text")) |->
                                  NodeAtPath(tree, InPreOrder(PathsOfKind(tree, "Text"))[i]).text])

\* C27: a remove step is, for some key k: when the map holds k at position i,
\* k's value is returned, the map is one shorter, the last pair stands at i
\* (when k was not the last) and every other pair is where it was; when the
\* map does not hold k, None is returned and the map is as it was.
C27_RemoveIsSwapRemove ==
    [][op' = "remove" =>
        \E k \in AttrKeys :
            IF \E i \in DOMAIN attrs : attrs[i].key = k
            THEN LET i == CHOOSE i \in DOMAIN attrs : attrs[i].key = k
                 IN  /\ out' = Some(attrs[i].value)
                     /\ Len(attrs') = Len(attrs) - 1
                     /\ i < Len(attrs) => attrs'[i] = attrs[Len(attrs)]
                     /\ \A j \in DOMAIN attrs' : j # i => attrs'[j] = attrs[j]
            ELSE /\ out' = None
                 /\ attrs' = attrs]_vars

C27_Witness ==
    /\ op = "remove"
    /\ out.some
    /\ displaced
    /\ Len(attrs) = 2
    /\ Keys(attrs) # order

\* C28: a get_or_insert_literal step is, for some key k: when the map holds k,
\* the map is as it was and k's value is returned; when it does not, k is
\* appended with the default and the default is returned; in both cases
\* get_or_insert_literal of k with any default leaves the new map as it is.
C28_GetOrInsertLiteralIdempotent ==
    [][op' = "get_or_insert_literal" =>
        \E k \in AttrKeys :
            /\ IF \E i \in DOMAIN attrs : attrs[i].key = k
               THEN /\ attrs' = attrs
                    /\ out' = Some((CHOOSE p \in {attrs[i] : i \in DOMAIN attrs} : p.key = k).value)
               ELSE \E d \in AttrValues :
                       /\ attrs' = Append(attrs, [key |-> k, value |-> d])
                       /\ out' = Some(d)
            /\ \A d \in AttrValues :
                 AttributeMap_get_or_insert_literal(attrs', k, d) = attrs']_vars

C28_Witness ==
    /\ op = "get_or_insert_literal"
    /\ out.some
    /\ Len(attrs) = 3
    /\ attrs[1].value = out.value
    /\ attrs[2].value # out.value
    /\ attrs[3].value # out.value

\* C29: the serialization of a node is the concatenation, in order and with
\* nothing between, of the serializations of the members of its flattening,
\* where a Text member stands for its own characters as they are; a Text node
\* serializes to its text and an empty Fragment to the empty string.
C29_FormatThroughFragments ==
    op = "format" =>
        LET members == Node_flatten(tree)
        IN  /\ out = Concat([i \in DOMAIN members |->
                               IF members[i].kind = "Text" THEN members[i].text
                               ELSE Node_format(members[i])])
            /\ tree.kind = "Text" => out = tree.text
            /\ tree = Fragment(<<>>) => out = <<>>

C29_Witness ==
    /\ op = "format"
    /\ tree.kind = "Fragment"
    /\ Len(tree.nodes) = 2
    /\ tree.nodes[1] = Text(<<"<">>)
    /\ tree.nodes[2].kind = "Fragment"
    /\ tree.nodes[2].nodes = <<Text(<<"a">>)>>
    /\ out = <<"<", "a">>

====
